---- MODULE Spec2Model ----
(***************************************************************************)
(* A model of the md-in-comments provider (src/src/markdownCommentProvider *)
(* .ts) and of the event wiring of activate() (src/test.ts, lines 63-164). *)
(*                                                                         *)
(* Text is a sequence of one-character strings; offsets, lines and columns *)
(* are 0-based as in the source.  A decoration is a record                 *)
(*   [sl, sc, el, ec, content, color]                                      *)
(* : its range (start line/column, end line/column), the text inserted by  *)
(* renderOptions.before.contentText and the theme-dependent colour.        *)
(***************************************************************************)
EXTENDS Integers, Sequences, FiniteSets, TLC

(***************************************************************************)
(* String primitives (the JavaScript String methods the provider uses).    *)
(***************************************************************************)
NL == "\n"

\* the grave accent (U+0060), which a TLA+ string cannot hold
BackTick == "bt"

WhiteSpace == {" ", "\t", NL}

Digits == {"0", "1", "2", "3", "4", "5", "6", "7", "8", "9"}

WordChars ==
    {"a", "b", "c", "d", "e", "f", "g", "h", "i", "j", "k", "l", "m", "n",
     "o", "p", "q", "r", "s", "t", "u", "v", "w", "x", "y", "z", "_"} \cup Digits

Min(S) == CHOOSE x \in S : \A y \in S : x <= y

Max(S) == CHOOSE x \in S : \A y \in S : x >= y

\* s.substring(a, b) for 0 <= a, b
Substring(s, a, b) ==
    LET lo == IF a < b THEN a ELSE b
        hi == IF a < b THEN b ELSE a
        h2 == IF hi > Len(s) THEN Len(s) ELSE hi
    IN  IF lo >= h2 THEN << >> ELSE SubSeq(s, lo + 1, h2)

\* s.startsWith(p, i)
StartsWithAt(s, p, i) ==
    /\ i >= 0
    /\ i + Len(p) <= Len(s)
    /\ \A k \in 1..Len(p) : s[i + k] = p[k]

\* s.indexOf(p, from)
IndexOf(s, p, from) ==
    LET found == {i \in from..(Len(s) - Len(p)) : StartsWithAt(s, p, i)}
    IN  IF found = {} THEN -1 ELSE Min(found)

\* s.split('\n')
RECURSIVE Split(_)
Split(s) ==
    LET i == IndexOf(s, <<NL>>, 0)
    IN  IF i = -1 THEN <<s>>
        ELSE <<Substring(s, 0, i)>> \o Split(Substring(s, i + 1, Len(s)))

\* lines.join('\n')
RECURSIVE Join(_)
Join(lines) ==
    IF Len(lines) = 0 THEN << >>
    ELSE IF Len(lines) = 1 THEN lines[1]
    ELSE lines[1] \o <<NL>> \o Join(Tail(lines))

\* number of leading characters of s that belong to the class cs
LeadingCount(s, cs) ==
    LET stops == {i \in 0..Len(s) : i = Len(s) \/ s[i + 1] \notin cs}
    IN  Min(stops)

\* number of trailing characters of s that belong to the class cs
TrailingCount(s, cs) ==
    LET stops == {i \in 0..Len(s) : i = Len(s) \/ s[Len(s) - i] \notin cs}
    IN  Min(stops)

\* s.trim()
Trim(s) ==
    LET a == LeadingCount(s, WhiteSpace)
    IN  IF a = Len(s) THEN << >>
        ELSE Substring(s, a, Len(s) - TrailingCount(s, WhiteSpace))

\* the offset of the first character of each line of s (line index 0-based)
LineStartOffset(lines, n) ==
    LET RECURSIVE Off(_)
        Off(k) == IF k = 0 THEN 0 ELSE Off(k - 1) + Len(lines[k]) + 1
    IN  Off(n)

(***************************************************************************)
(* The document interface of the host (vscode.TextDocument).               *)
(***************************************************************************)
\* document.lineCount
LineCount(text) == Len(Split(text))

\* document.lineAt(n).text
LineAt(text, n) == Split(text)[n + 1]

\* document.getText(new Range(new Position(sl, 0), new Position(el + 1, 0))):
\* the host clamps the end position to the end of the document
GetTextOfLines(text, sl, el) ==
    LET lines == Split(text)
        last  == Len(lines) - 1
        hi    == IF el > last THEN last ELSE el
        body  == Join(SubSeq(lines, sl + 1, hi + 1))
    IN  IF el + 1 <= last THEN body \o <<NL>> ELSE body

IsMarkdownLanguage(languageId) ==
    languageId = "markdown" \/ languageId = "instructions"

(***************************************************************************)
(* Comment extraction.                                                     *)
(***************************************************************************)
SlashSlash == <<"/", "/">>

Hash == <<"#">>

SlashStar == <<"/", "*">>

StarSlash == <<"*", "/">>

TripleQuote == <<"\"", "\"", "\"">>

CFamily ==
    {"javascript", "typescript", "java", "csharp", "cpp", "c", "go", "rust", "php"}

\* Each single-line pattern is /M\s*(.*)$/, each start pattern /^\s*M/ and
\* each end pattern /M/, for the marker M listed here.
getCommentPatterns(languageId) ==
    IF languageId \in CFamily
    THEN [singleLine |-> <<SlashSlash>>, multiLineStart |-> <<SlashStar>>,
          multiLineEnd |-> <<StarSlash>>]
    ELSE IF languageId = "python"
    THEN [singleLine |-> <<Hash>>, multiLineStart |-> <<TripleQuote>>,
          multiLineEnd |-> <<TripleQuote>>]
    ELSE IF languageId = "markdown"
    THEN [singleLine |-> << >>, multiLineStart |-> << >>, multiLineEnd |-> << >>]
    ELSE [singleLine |-> <<SlashSlash, Hash>>, multiLineStart |-> <<SlashStar>>,
          multiLineEnd |-> <<StarSlash>>]

\* line.replace(/^(\s*)\/\*+\s*/, '')
StripOpening(line) ==
    LET ws    == LeadingCount(line, WhiteSpace)
        rest  == Substring(line, ws + 1, Len(line))
        stars == LeadingCount(rest, {"*"})
        tail  == Substring(rest, stars, Len(rest))
    IN  IF StartsWithAt(line, SlashStar, ws)
        THEN Substring(tail, LeadingCount(tail, WhiteSpace), Len(tail))
        ELSE line

\* line.replace(/^\s*\*+\s*/, '') : every leading asterisk goes
StripEveryStar(line) ==
    LET ws    == LeadingCount(line, WhiteSpace)
        rest  == Substring(line, ws, Len(line))
        stars == LeadingCount(rest, {"*"})
        tail  == Substring(rest, stars, Len(rest))
    IN  IF stars > 0
        THEN Substring(tail, LeadingCount(tail, WhiteSpace), Len(tail))
        ELSE line

\* line.replace(/^\s*\*\s/, '')
StripStarPrefix(line) ==
    LET ws == LeadingCount(line, WhiteSpace)
    IN  IF /\ ws + 2 <= Len(line)
           /\ line[ws + 1] = "*"
           /\ line[ws + 2] \in WhiteSpace
        THEN Substring(line, ws + 2, Len(line))
        ELSE line

extractMultiLineComment(lines, startLine, endMarker) ==
    LET n         == Len(lines)
        ends      == {i \in (startLine + 1)..(n - 1) :
                         IndexOf(lines[i + 1], endMarker, 0) # -1}
        hasEnd    == ends # {}
        endLine   == IF hasEnd THEN Min(ends) ELSE startLine
        lastRead  == IF hasEnd THEN endLine ELSE n - 1
        first     == StripOpening(lines[startLine + 1])
        cleanedAt(i) ==
            IF i = startLine
            THEN (IF Trim(first) # << >> THEN first ELSE << >>)
            ELSE IF hasEnd /\ i = endLine
            THEN StripStarPrefix(
                     Substring(lines[i + 1], 0, IndexOf(lines[i + 1], endMarker, 0)))
            ELSE StripStarPrefix(lines[i + 1])
        RECURSIVE Cleaned(_, _)
        Cleaned(i, acc) ==
            IF i > lastRead THEN acc ELSE Cleaned(i + 1, Append(acc, cleanedAt(i)))
        cleanedLines == Cleaned(startLine, << >>)
    IN  [text          |-> Trim(Join(cleanedLines)),
         startLine     |-> startLine,
         endLine       |-> endLine,
         startChar     |-> 0,
         endChar       |-> Len(lines[endLine + 1]),
         originalLines |-> SubSeq(lines, startLine + 1, lastRead + 1),
         cleanedLines  |-> cleanedLines]

\* the block pushed for the first single-line pattern that matches the line
SingleLineBlocks(line, i, markers) ==
    LET hits == {k \in 1..Len(markers) : IndexOf(line, markers[k], 0) # -1}
        m    == markers[Min(hits)]
        idx  == IndexOf(line, m, 0)
        rest == Substring(line, idx + Len(m), Len(line))
        ws   == LeadingCount(rest, WhiteSpace)
        commentText == Substring(rest, ws, Len(rest))
    IN  IF hits = {} THEN << >>
        ELSE << [text          |-> commentText,
                 startLine     |-> i,
                 endLine       |-> i,
                 startChar     |-> idx + (Len(line) - idx) - Len(commentText),
                 endChar       |-> Len(line),
                 originalLines |-> << >>,
                 cleanedLines  |-> << >>] >>

MatchesMultiLineStart(line, markers) ==
    \E k \in 1..Len(markers) :
        StartsWithAt(line, markers[k], LeadingCount(line, WhiteSpace))

extractComments(text, languageId) ==
    LET lines    == Split(text)
        patterns == getCommentPatterns(languageId)
        RECURSIVE Scan(_, _)
        Scan(i, comments) ==
            IF i >= Len(lines) THEN comments
            ELSE LET line   == lines[i + 1]
                     single == SingleLineBlocks(line, i, patterns.singleLine)
                     block  == extractMultiLineComment(lines, i, patterns.multiLineEnd[1])
                 IN  IF MatchesMultiLineStart(line, patterns.multiLineStart)
                     THEN Scan(block.endLine + 1, comments \o single \o <<block>>)
                     ELSE Scan(i + 1, comments \o single)
    IN  Scan(0, << >>)

(***************************************************************************)
(* Position Mapper.                                                        *)
(***************************************************************************)
NullPosition == [found |-> FALSE, sl |-> -1, sc |-> -1, el |-> -1, ec |-> -1]

\* (s.match(new RegExp(escapeRegExp(p), 'g')) || []).length : the matches of
\* a global regular expression do not overlap; the empty pattern matches
\* once at every offset
CountMatches(s, p) ==
    LET RECURSIVE Count(_)
        Count(from) ==
            LET i == IndexOf(s, p, from)
            IN  IF i = -1 THEN 0 ELSE 1 + Count(i + Len(p))
    IN  IF Len(p) = 0 THEN Len(s) + 1 ELSE Count(0)

\* the (line, character) of offset idx of documentText, whose first line is
\* document line startLine
OffsetToPosition(documentText, idx, startLine) ==
    LET lines == Split(Substring(documentText, 0, idx))
    IN  [line |-> startLine + Len(lines) - 1, character |-> Len(lines[Len(lines)])]

\* the while loop of getDocumentPosition: the index in documentText of
\* occurrence number occurrenceInComment of searchText, or -1
FindOccurrence(documentText, searchText, occurrenceInComment) ==
    LET RECURSIVE Loop(_, _)
        Loop(occurrenceCount, currentIndex) ==
            IF ~(occurrenceCount <= occurrenceInComment
                 /\ currentIndex < Len(documentText))
            THEN -1
            ELSE LET foundIndex == IndexOf(documentText, searchText, currentIndex)
                 IN  IF foundIndex = -1 THEN -1
                     ELSE IF occurrenceCount = occurrenceInComment THEN foundIndex
                     ELSE Loop(occurrenceCount + 1, foundIndex + 1)
    IN  Loop(0, 0)

\* the search run over the document from the first line of the block to
\* the last line of the document, not to the last line of the block
getDocumentPositionToEnd(matchStart, matchEnd, comment, document, commentText) ==
    LET searchText   == Substring(commentText, matchStart, matchEnd)
        documentText == GetTextOfLines(document, comment.startLine,
                                       LineCount(document) - 1)
        occurrenceInComment ==
            CountMatches(Substring(commentText, 0, matchStart), searchText)
        searchIndex  == FindOccurrence(documentText, searchText, occurrenceInComment)
        start == OffsetToPosition(documentText, searchIndex, comment.startLine)
        end   == OffsetToPosition(documentText, searchIndex + Len(searchText),
                                  comment.startLine)
    IN  IF searchIndex = -1 THEN NullPosition
        ELSE [found |-> TRUE, sl |-> start.line, sc |-> start.character,
              el |-> end.line, ec |-> end.character]

getDocumentPosition(matchStart, matchEnd, comment, document, commentText) ==
    LET searchText   == Substring(commentText, matchStart, matchEnd)
        documentText == GetTextOfLines(document, comment.startLine, comment.endLine)
        occurrenceInComment ==
            CountMatches(Substring(commentText, 0, matchStart), searchText)
        searchIndex  == FindOccurrence(documentText, searchText, occurrenceInComment)
        start == OffsetToPosition(documentText, searchIndex, comment.startLine)
        end   == OffsetToPosition(documentText, searchIndex + Len(searchText),
                                  comment.startLine)
    IN  IF searchIndex = -1 THEN NullPosition
        ELSE [found |-> TRUE, sl |-> start.line, sc |-> start.character,
              el |-> end.line, ec |-> end.character]

(***************************************************************************)
(* The regular expressions of the pattern cascade.  A match is a record    *)
(* [start, end, cs, ce]: the offsets of match[0] and of the capture group  *)
(* that the pass reads as its content.                                     *)
(***************************************************************************)
NoMatch == [start |-> -1, end |-> -1, cs |-> -1, ce |-> -1]

Span(a, b) == [start |-> a, end |-> b, cs |-> a, ce |-> b]

NoNewline(text, a, b) == \A k \in (a + 1)..b : text[k] # NL

\* /DD(.*?)DD/ at offset i, for a two-character delimiter DD
DelimitedAt(text, i, dd) ==
    LET closes == {j \in (i + 2)..(Len(text) - 2) :
                      StartsWithAt(text, dd, j) /\ NoNewline(text, i + 2, j)}
    IN  IF StartsWithAt(text, dd, i) /\ closes # {}
        THEN [start |-> i, end |-> Min(closes) + 2, cs |-> i + 2, ce |-> Min(closes)]
        ELSE NoMatch

\* /(?<!c)c([^c]+?)c(?!c)/ at offset i, or with [^c\n] when ~acrossLines
EnclosedAt(text, i, c, acrossLines) ==
    LET j == IndexOf(text, <<c>>, i + 1)
    IN  IF /\ i < Len(text)
           /\ text[i + 1] = c
           /\ (i = 0 \/ text[i] # c)
           /\ j >= i + 2
           /\ (j + 1 >= Len(text) \/ text[j + 2] # c)
           /\ (acrossLines \/ NoNewline(text, i + 1, j))
        THEN [start |-> i, end |-> j + 1, cs |-> i + 1, ce |-> j]
        ELSE NoMatch

\* /\[([^\]\n]+)\]\(([^)\n]+)\)/ at offset i
LinkAt(text, i) ==
    LET j == IndexOf(text, <<"]">>, i + 1)
        k == IndexOf(text, <<")">>, j + 2)
    IN  IF /\ i < Len(text)
           /\ text[i + 1] = "["
           /\ j >= i + 2
           /\ NoNewline(text, i + 1, j)
           /\ j + 1 < Len(text)
           /\ text[j + 2] = "("
           /\ k >= j + 3
           /\ NoNewline(text, j + 2, k)
        THEN [start |-> i, end |-> k + 1, cs |-> i + 1, ce |-> j]
        ELSE NoMatch

\* /!\[([^\]\n]+)\]\(([^)\n]+)\)/ at offset i
ImageAt(text, i) ==
    LET link == LinkAt(text, i + 1)
    IN  IF i < Len(text) /\ text[i + 1] = "!" /\ link.start # -1
        THEN [link EXCEPT !.start = i]
        ELSE NoMatch

\* ^ under the m flag
AtLineStart(text, i) == i = 0 \/ text[i] = NL

\* the offset of the end of the line that holds offset i: where (.*)$ stops
EndOfLine(text, i) ==
    LET j == IndexOf(text, <<NL>>, i)
    IN  IF j = -1 THEN Len(text) ELSE j

\* the number of characters of the class cs from offset i on
RunAt(text, i, cs) == LeadingCount(Substring(text, i, Len(text)), cs)

\* /^(\s*)-\s+\[([ xX])\]\s+(.*)$/m at offset i; cs..ce is group 3 and
\* marker the offset of the '-'
TaskAt(text, i) ==
    LET dash == i + RunAt(text, i, WhiteSpace)
        open == dash + 1 + RunAt(text, dash + 1, WhiteSpace)
        ws2  == RunAt(text, open + 3, WhiteSpace)
        cs   == open + 3 + ws2
    IN  IF /\ AtLineStart(text, i)
           /\ dash < Len(text) /\ text[dash + 1] = "-"
           /\ open > dash + 1
           /\ open + 3 <= Len(text)
           /\ text[open + 1] = "["
           /\ text[open + 2] \in {" ", "x", "X"}
           /\ text[open + 3] = "]"
           /\ ws2 >= 1
        THEN [start |-> i, end |-> EndOfLine(text, cs), cs |-> cs,
              ce |-> EndOfLine(text, cs), marker |-> dash, state |-> text[open + 2]]
        ELSE [start |-> -1, end |-> -1, cs |-> -1, ce |-> -1, marker |-> -1, state |-> " "]

\* /^([ \t]*)(?:-|\*(?!\*))\s+(.*)$/m at offset i; cs..ce is group 2
BulletAt(text, i) ==
    LET mark == i + RunAt(text, i, {" ", "\t"})
        ws   == RunAt(text, mark + 1, WhiteSpace)
        cs   == mark + 1 + ws
    IN  IF /\ AtLineStart(text, i)
           /\ mark < Len(text)
           /\ \/ text[mark + 1] = "-"
              \/ /\ text[mark + 1] = "*"
                 /\ (mark + 1 >= Len(text) \/ text[mark + 2] # "*")
           /\ ws >= 1
        THEN [start |-> i, end |-> EndOfLine(text, cs), cs |-> cs,
              ce |-> EndOfLine(text, cs), marker |-> mark]
        ELSE [start |-> -1, end |-> -1, cs |-> -1, ce |-> -1, marker |-> -1]

\* /^([ \t]*)(\d+)\.\s+(.*)$/m at offset i; cs..ce is group 2, the number
NumberedAt(text, i) ==
    LET mark   == i + RunAt(text, i, {" ", "\t"})
        digits == RunAt(text, mark, Digits)
        dot    == mark + digits
        ws     == RunAt(text, dot + 1, WhiteSpace)
    IN  IF /\ AtLineStart(text, i)
           /\ digits >= 1
           /\ dot < Len(text) /\ text[dot + 1] = "."
           /\ ws >= 1
        THEN [start |-> i, end |-> EndOfLine(text, dot + 1 + ws), cs |-> mark,
              ce |-> dot, marker |-> mark]
        ELSE [start |-> -1, end |-> -1, cs |-> -1, ce |-> -1, marker |-> -1]

\* /(["'BACKTICK])(?:(?=(\\?))\2.)*?\1/ at offset i: a quote, then units of
\* an optional backslash and one character other than a newline, up to the
\* first unit position that holds the same quote
StringAt(text, i) ==
    LET RECURSIVE Close(_)
        Close(p) ==
            IF p >= Len(text) THEN -1
            ELSE IF text[p + 1] = text[i + 1] THEN p + 1
            ELSE IF text[p + 1] = "\\"
            THEN (IF p + 1 < Len(text) /\ text[p + 2] # NL THEN Close(p + 2) ELSE -1)
            ELSE IF text[p + 1] = NL THEN -1
            ELSE Close(p + 1)
    IN  IF i < Len(text) /\ text[i + 1] \in {"\"", "'", BackTick} /\ Close(i + 1) # -1
        THEN Span(i, Close(i + 1))
        ELSE NoMatch

\* /\/\/.*$/m at offset i
LineCommentAt(text, i) ==
    IF StartsWithAt(text, SlashSlash, i) THEN Span(i, EndOfLine(text, i)) ELSE NoMatch

IsWordAt(text, i) == i >= 0 /\ i < Len(text) /\ text[i + 1] \in WordChars

\* \b at offset i
WordBoundary(text, i) == IsWordAt(text, i - 1) # IsWordAt(text, i)

Keywords ==
    {<<"c","o","n","s","t">>, <<"l","e","t">>, <<"v","a","r">>,
     <<"f","u","n","c","t","i","o","n">>, <<"c","l","a","s","s">>, <<"i","f">>,
     <<"e","l","s","e">>, <<"f","o","r">>, <<"w","h","i","l","e">>,
     <<"r","e","t","u","r","n">>, <<"i","m","p","o","r","t">>,
     <<"e","x","p","o","r","t">>, <<"f","r","o","m">>, <<"a","s","y","n","c">>,
     <<"a","w","a","i","t">>, <<"n","e","w">>, <<"t","h","i","s">>,
     <<"s","u","p","e","r">>, <<"e","x","t","e","n","d","s">>,
     <<"i","m","p","l","e","m","e","n","t","s">>,
     <<"i","n","t","e","r","f","a","c","e">>, <<"t","y","p","e">>,
     <<"e","n","u","m">>, <<"p","u","b","l","i","c">>, <<"p","r","i","v","a","t","e">>,
     <<"p","r","o","t","e","c","t","e","d">>, <<"s","t","a","t","i","c">>,
     <<"r","e","a","d","o","n","l","y">>, <<"n","u","l","l">>,
     <<"u","n","d","e","f","i","n","e","d">>, <<"t","r","u","e">>,
     <<"f","a","l","s","e">>, <<"v","o","i","d">>, <<"a","n","y">>,
     <<"s","t","r","i","n","g">>, <<"n","u","m","b","e","r">>,
     <<"b","o","o","l","e","a","n">>, <<"t","r","y">>, <<"c","a","t","c","h">>,
     <<"f","i","n","a","l","l","y">>, <<"t","h","r","o","w">>,
     <<"t","y","p","e","o","f">>, <<"i","n","s","t","a","n","c","e","o","f">>,
     <<"i","n">>, <<"o","f">>, <<"d","e","l","e","t","e">>,
     <<"d","e","f","a","u","l","t">>, <<"s","w","i","t","c","h">>,
     <<"c","a","s","e">>, <<"b","r","e","a","k">>,
     <<"c","o","n","t","i","n","u","e">>, <<"d","o">>, <<"w","i","t","h">>,
     <<"y","i","e","l","d">>, <<"d","e","b","u","g","g","e","r">>}

\* /\b(const|let|...)\b/ at offset i
KeywordAt(text, i) ==
    LET ends == {e \in (i + 1)..Len(text) :
                    Substring(text, i, e) \in Keywords /\ WordBoundary(text, e)}
    IN  IF WordBoundary(text, i) /\ ends # {} THEN Span(i, Max(ends)) ELSE NoMatch

\* [a-zA-Z_$] and [a-zA-Z0-9_$]
IdentifierChars == WordChars \cup {"$"}

IdentifierStart == IdentifierChars \ Digits

IsIdentifier(text, i, e) ==
    /\ text[i + 1] \in IdentifierStart
    /\ \A k \in (i + 2)..e : text[k] \in IdentifierChars

\* /\b([a-zA-Z_$][a-zA-Z0-9_$]*)\s*\(/ at offset i, read with captureGroup 1:
\* the range is that of the name
FunctionCallAt(text, i) ==
    LET called(e) == LET p == e + RunAt(text, e, WhiteSpace)
                     IN  p < Len(text) /\ text[p + 1] = "("
        ends == {e \in (i + 1)..Len(text) : IsIdentifier(text, i, e) /\ called(e)}
    IN  IF WordBoundary(text, i) /\ ends # {} THEN Span(i, Max(ends)) ELSE NoMatch

\* /\b\d+\.?\d*\b/ at offset i: the quantifiers are greedy, in this order
NumberAt(text, i) ==
    LET run1 == RunAt(text, i, Digits)
        endOf(d1, dot, d2) == i + d1 + dot + d2
        ok(d1, dot, d2) ==
            /\ (dot = 1 => (i + d1 < Len(text) /\ text[i + d1 + 1] = "."))
            /\ d2 <= RunAt(text, i + d1 + dot, Digits)
            /\ WordBoundary(text, endOf(d1, dot, d2))
        choices == {c \in (1..run1) \X {0, 1} \X (0..Len(text)) : ok(c[1], c[2], c[3])}
        best == CHOOSE c \in choices : \A o \in choices :
                    \/ c[1] > o[1]
                    \/ (c[1] = o[1] /\ c[2] > o[2])
                    \/ (c[1] = o[1] /\ c[2] = o[2] /\ c[3] >= o[3])
    IN  IF WordBoundary(text, i) /\ run1 >= 1 /\ choices # {}
        THEN Span(i, endOf(best[1], best[2], best[3]))
        ELSE NoMatch

OperatorChars ==
    {"=", "+", "-", "*", "/", "<", ">", "!", "&", "|", "^", "~", "%", "?", ":",
     ",", ";", "(", ")", "[", "]", "{", "}"}

\* /[=+\-*/<>!&|^~%?:,;()\[\]{}]+/ at offset i
OperatorAt(text, i) ==
    IF RunAt(text, i, OperatorChars) >= 1
    THEN Span(i, i + RunAt(text, i, OperatorChars)) ELSE NoMatch

\* /\b[a-zA-Z_$][a-zA-Z0-9_$]*\b/ at offset i
IdentifierAt(text, i) ==
    LET ends == {e \in (i + 1)..Len(text) :
                    IsIdentifier(text, i, e) /\ WordBoundary(text, e)}
    IN  IF WordBoundary(text, i) /\ ends # {} THEN Span(i, Max(ends)) ELSE NoMatch

\* /<!--[\s\S]*?-->/ at offset i
HtmlCommentAt(text, i) ==
    LET close == IndexOf(text, <<"-", "-", ">">>, i + 4)
    IN  IF StartsWithAt(text, <<"<", "!", "-", "-">>, i) /\ close # -1
        THEN Span(i, close + 3) ELSE NoMatch

PatternAt(text, i, pattern) ==
    CASE pattern = "bold"          -> DelimitedAt(text, i, <<"*", "*">>)
      [] pattern = "strikethrough" -> DelimitedAt(text, i, <<"~", "~">>)
      [] pattern = "italicBlock"   -> EnclosedAt(text, i, "*", TRUE)
      [] pattern = "italic"        -> EnclosedAt(text, i, "*", FALSE)
      [] pattern = "code"          -> EnclosedAt(text, i, BackTick, FALSE)
      [] pattern = "link"          -> LinkAt(text, i)
      [] pattern = "image"         -> ImageAt(text, i)
      [] pattern = "task"          -> TaskAt(text, i)
      [] pattern = "bullet"        -> BulletAt(text, i)
      [] pattern = "numbered"      -> NumberedAt(text, i)
      [] pattern = "htmlComment"     -> HtmlCommentAt(text, i)
      [] pattern = "syntax-string"   -> StringAt(text, i)
      [] pattern = "syntax-comment"  -> LineCommentAt(text, i)
      [] pattern = "syntax-keyword"  -> KeywordAt(text, i)
      [] pattern = "syntax-function" -> FunctionCallAt(text, i)
      [] pattern = "syntax-number"   -> NumberAt(text, i)
      [] pattern = "syntax-operator" -> OperatorAt(text, i)
      [] pattern = "syntax-variable" -> IdentifierAt(text, i)

\* the successive results of pattern.exec(text) for a global pattern, from
\* lastIndex 0 until it returns null
ExecAll(text, pattern) ==
    LET RECURSIVE Exec(_)
        \* the match m, then the results of the calls that follow it
        After(m) == <<m>> \o Exec(m.end)
        \* the leftmost match, given the offsets at which the pattern matches
        Leftmost(hits) ==
            IF hits = {} THEN << >> ELSE After(PatternAt(text, Min(hits), pattern))
        Exec(lastIndex) ==
            Leftmost({i \in lastIndex..(Len(text) - 1) :
                         PatternAt(text, i, pattern).start # -1})
    IN  Exec(0)

(***************************************************************************)
(* Decorations.                                                            *)
(***************************************************************************)
\* the keys of decorationTypes, set by initializeDecorationTypes
Categories ==
    {"bold", "italic", "code", "strikethrough", "indent", "markdownLine",
     "header1", "header2", "header3", "header4", "header5", "header6",
     "header7", "commentGray", "replace", "codeBlockLine", "syntax-keyword",
     "syntax-string", "syntax-number", "syntax-function", "syntax-comment",
     "syntax-variable", "syntax-property", "syntax-operator"}

\* allDecorations = new Map(); decorationTypes.forEach(key => set(key, []))
EmptyDecorations ==
    "bold" :> << >> @@ "italic" :> << >> @@ "code" :> << >>
    @@ "strikethrough" :> << >> @@ "indent" :> << >> @@ "markdownLine" :> << >>
    @@ "header1" :> << >> @@ "header2" :> << >> @@ "header3" :> << >>
    @@ "header4" :> << >> @@ "header5" :> << >> @@ "header6" :> << >>
    @@ "header7" :> << >> @@ "commentGray" :> << >> @@ "replace" :> << >>
    @@ "codeBlockLine" :> << >> @@ "syntax-keyword" :> << >> @@ "syntax-string" :> << >>
    @@ "syntax-number" :> << >> @@ "syntax-function" :> << >> @@ "syntax-comment" :> << >>
    @@ "syntax-variable" :> << >> @@ "syntax-property" :> << >> @@ "syntax-operator" :> << >>

\* the column the host reads as "to the end of the line"
MAX_SAFE_INTEGER == 2147483647

IsDark(theme) == theme = "Dark" \/ theme = "HighContrast"

getBorderColor(theme) == IF IsDark(theme) THEN "#666666" ELSE "#888888"

getTextColor(theme) == IF IsDark(theme) THEN "#d0d0d0" ELSE "#4d4d4d"

\* a decoration that only carries a range
RangeOnly(sl, sc, el, ec) ==
    [sl |-> sl, sc |-> sc, el |-> el, ec |-> ec,
     content |-> << >>, color |-> "none", margin |-> "none"]

\* a zero-width decoration that inserts content before (line, character)
Inserted(line, character, content, color, margin) ==
    [sl |-> line, sc |-> character, el |-> line, ec |-> character,
     content |-> content, color |-> color, margin |-> margin]

\* decorations.get(type).push(decoration)
Push(decorations, type, decoration) ==
    [decorations EXCEPT ![type] = Append(@, decoration)]

Fence == <<BackTick, BackTick, BackTick>>

\* the offset ranges of the content of the fenced code blocks of text
getCodeBlockRanges(text) ==
    LET lines == Split(text)
        RECURSIVE Scan(_, _, _, _, _)
        Scan(i, inCodeBlock, blockStart, currentPos, ranges) ==
            IF i > Len(lines) THEN ranges
            ELSE LET line == lines[i]
                     next == currentPos + Len(line) + 1
                 IN  IF ~StartsWithAt(line, Fence, 0)
                     THEN Scan(i + 1, inCodeBlock, blockStart, next, ranges)
                     ELSE IF ~inCodeBlock
                     THEN Scan(i + 1, TRUE, next, next, ranges)
                     ELSE Scan(i + 1, FALSE, blockStart, next,
                               Append(ranges, [start |-> blockStart, end |-> currentPos]))
    IN  Scan(1, FALSE, 0, 0, << >>)

\* the same blocks as ranges of line indices of text (first and last content line)
getCodeBlockLineRanges(text) ==
    LET lines == Split(text)
        RECURSIVE Scan(_, _, _, _)
        Scan(i, inCodeBlock, blockStartLine, ranges) ==
            IF i >= Len(lines) THEN ranges
            ELSE IF ~StartsWithAt(lines[i + 1], Fence, 0)
            THEN Scan(i + 1, inCodeBlock, blockStartLine, ranges)
            ELSE IF ~inCodeBlock
            THEN Scan(i + 1, TRUE, i + 1, ranges)
            ELSE Scan(i + 1, FALSE, blockStartLine,
                      IF blockStartLine <= i - 1
                      THEN Append(ranges, [startLine |-> blockStartLine, endLine |-> i - 1])
                      ELSE ranges)
    IN  Scan(0, FALSE, 0, << >>)

applyGrayColorExcludingCodeBlocks(decorations, comment, document, text) ==
    LET codeBlockLineRanges == getCodeBlockLineRanges(text)
        totalCleanedLines   == Len(Split(text))
        codeBlockLines ==
            UNION {(codeBlockLineRanges[r].startLine..codeBlockLineRanges[r].endLine)
                   \cup (IF codeBlockLineRanges[r].startLine > 0
                         THEN {codeBlockLineRanges[r].startLine - 1} ELSE {})
                   \cup {codeBlockLineRanges[r].endLine + 1}
                   : r \in 1..Len(codeBlockLineRanges)}
        RECURSIVE Lines(_, _)
        Lines(cleanedLineIdx, decs) ==
            IF cleanedLineIdx >= totalCleanedLines THEN decs
            ELSE LET docLine == comment.startLine + cleanedLineIdx
                 IN  IF cleanedLineIdx \notin codeBlockLines /\ docLine <= comment.endLine
                     THEN Lines(cleanedLineIdx + 1,
                                Push(decs, "commentGray",
                                     RangeOnly(docLine, 0, docLine,
                                               Len(LineAt(document, docLine)))))
                     ELSE Lines(cleanedLineIdx + 1, decs)
    IN  IF Len(codeBlockLineRanges) = 0
        THEN Push(decorations, "commentGray",
                  RangeOnly(comment.startLine, 0, comment.endLine,
                            Len(LineAt(document, comment.endLine))))
        ELSE Lines(0, decorations)

\* /^\s*\*?\s*FENCE/ for code files, /^FENCE/ for markdown files
IsFenceLine(lineText, isMarkdownFile) ==
    LET ws1  == LeadingCount(lineText, WhiteSpace)
        star == IF ws1 < Len(lineText) /\ lineText[ws1 + 1] = "*" THEN 1 ELSE 0
        rest == Substring(lineText, ws1 + star, Len(lineText))
    IN  IF isMarkdownFile THEN StartsWithAt(lineText, Fence, 0)
        ELSE StartsWithAt(rest, Fence, LeadingCount(rest, WhiteSpace))

applyCodeBlockBackground(decorations, comment, document, languageId, activeLine) ==
    LET isMarkdownFile == IsMarkdownLanguage(languageId)
        RECURSIVE Fill(_, _, _)
        Fill(bgLine, lastLine, decs) ==
            IF bgLine > lastLine THEN decs
            ELSE IF bgLine = activeLine THEN Fill(bgLine + 1, lastLine, decs)
            ELSE Fill(bgLine + 1, lastLine,
                      Push(decs, "codeBlockLine",
                           RangeOnly(bgLine, 0, bgLine, MAX_SAFE_INTEGER)))
        RECURSIVE Scan(_, _, _, _)
        Scan(lineNum, inCodeBlock, codeBlockStartLine, decs) ==
            IF lineNum > comment.endLine THEN decs
            ELSE IF ~IsFenceLine(LineAt(document, lineNum), isMarkdownFile)
            THEN Scan(lineNum + 1, inCodeBlock, codeBlockStartLine, decs)
            ELSE IF ~inCodeBlock
            THEN Scan(lineNum + 1, TRUE, lineNum, decs)
            ELSE Scan(lineNum + 1, FALSE, -1, Fill(codeBlockStartLine, lineNum, decs))
    IN  Scan(comment.startLine, FALSE, -1, decorations)

\* firstLine.match(/\/\*+/): [index, length] of the leftmost match, or index -1
OpenDelimiter(line) ==
    LET idx  == IndexOf(line, SlashStar, 0)
        rest == Substring(line, idx + 1, Len(line))
    IN  IF idx = -1 THEN [index |-> -1, length |-> 0]
        ELSE [index |-> idx, length |-> 1 + LeadingCount(rest, {"*"})]

\* lastLine.match(/\*+\//): [index, length] of the leftmost match, or index -1
CloseDelimiter(line) ==
    LET runAt(i) == LeadingCount(Substring(line, i, Len(line)), {"*"})
        hits == {i \in 0..(Len(line) - 1) :
                    /\ line[i + 1] = "*"
                    /\ i + runAt(i) < Len(line)
                    /\ line[i + runAt(i) + 1] = "/"}
    IN  IF hits = {} THEN [index |-> -1, length |-> 0]
        ELSE [index |-> Min(hits), length |-> runAt(Min(hits)) + 1]

replaceCommentDelimiters(decorations, comment, theme, activeLine) ==
    LET openMatch  == OpenDelimiter(comment.originalLines[1])
        closeMatch == CloseDelimiter(comment.originalLines[Len(comment.originalLines)])
        afterOpen ==
            IF openMatch.index # -1 /\ comment.startLine # activeLine
            THEN Push(Push(decorations, "replace",
                           RangeOnly(comment.startLine, openMatch.index,
                                     comment.startLine,
                                     openMatch.index + openMatch.length)),
                      "bold",
                      Inserted(comment.startLine, 0, <<"TopRule">>,
                               getBorderColor(theme), "0 0 0 -3px"))
            ELSE decorations
    IN  IF Len(comment.originalLines) < 2 THEN decorations
        ELSE IF closeMatch.index # -1 /\ comment.endLine # activeLine
        THEN Push(Push(afterOpen, "replace",
                       RangeOnly(comment.endLine, closeMatch.index,
                                 comment.endLine,
                                 closeMatch.index + closeMatch.length)),
                  "bold",
                  Inserted(comment.endLine, 0, <<"BottomRule">>,
                           getBorderColor(theme), "0 0 0 -3px"))
        ELSE afterOpen

\* /^(\s*)\*(\s?)$/
IsBareAsteriskLine(line) ==
    LET ws   == LeadingCount(line, WhiteSpace)
        rest == Substring(line, ws, Len(line))
    IN  \/ rest = <<"*">>
        \/ (Len(rest) = 2 /\ rest[1] = "*" /\ rest[2] \in WhiteSpace)

\* the length of the match of /^(\s*)\*\s/, or 0
AsteriskPrefixLength(line) ==
    LET ws == LeadingCount(line, WhiteSpace)
    IN  IF /\ ws + 2 <= Len(line)
           /\ line[ws + 1] = "*"
           /\ line[ws + 2] \in WhiteSpace
        THEN ws + 2 ELSE 0

hideAsteriskPrefixes(decorations, comment, activeLine) ==
    LET RECURSIVE Loop(_, _)
        Loop(i, decs) ==
            IF i >= Len(comment.originalLines) - 1 THEN decs
            ELSE LET line       == comment.originalLines[i + 1]
                     lineNumber == comment.startLine + i
                 IN  IF lineNumber = activeLine THEN Loop(i + 1, decs)
                     ELSE IF IsBareAsteriskLine(line)
                     THEN Loop(i + 1,
                               Push(Push(decs, "replace",
                                         RangeOnly(lineNumber, 0, lineNumber, Len(line))),
                                    "indent",
                                    Inserted(lineNumber, Len(line), << >>,
                                             "none", "0 0 0 1ch")))
                     ELSE IF AsteriskPrefixLength(line) > 0
                     THEN Loop(i + 1,
                               Push(decs, "replace",
                                    RangeOnly(lineNumber, 0, lineNumber,
                                              AsteriskPrefixLength(line))))
                     ELSE Loop(i + 1, decs)
    IN  IF Len(comment.originalLines) < 2 THEN decorations
        ELSE Loop(1, decorations)

\* trimmedLine.startsWith('/*') || trimmedLine.endsWith('*/')
IsDelimiterLine(lineText) ==
    LET trimmedLine == Trim(lineText)
    IN  \/ StartsWithAt(trimmedLine, SlashStar, 0)
        \/ StartsWithAt(trimmedLine, StarSlash, Len(trimmedLine) - 2)

addLineIndentation(decorations, comment, document, activeLine) ==
    LET RECURSIVE Loop(_, _)
        Loop(lineNum, decs) ==
            IF lineNum > comment.endLine THEN decs
            ELSE IF lineNum = activeLine \/ IsDelimiterLine(LineAt(document, lineNum))
            THEN Loop(lineNum + 1, decs)
            ELSE Loop(lineNum + 1,
                      Push(decs, "indent",
                           [RangeOnly(lineNum, 0, lineNum, MAX_SAFE_INTEGER)
                                EXCEPT !.content = <<" ", " ">>,
                                       !.margin  = "0 0 0 1rem"]))
    IN  Loop(comment.startLine, decorations)

\* the matches of /^FENCE(\w*)$/gm : [start, end, cs, ce] per matching line
FenceDelimiterMatches(text) ==
    LET lines == Split(text)
        isDelimiter(i) ==
            /\ StartsWithAt(lines[i], Fence, 0)
            /\ \A k \in 4..Len(lines[i]) : lines[i][k] \in WordChars
    IN  [k \in 1..Cardinality({i \in 1..Len(lines) : isDelimiter(i)}) |->
            LET i == CHOOSE i \in 1..Len(lines) :
                        /\ isDelimiter(i)
                        /\ Cardinality({j \in 1..i : isDelimiter(j)}) = k
                o == LineStartOffset(lines, i - 1)
            IN  [start |-> o, end |-> o + Len(lines[i]), cs |-> o + 3,
                 ce |-> o + Len(lines[i])]]

replaceCodeBlockDelimiters(decorations, text, comment, document, theme, activeLine) ==
    LET matches   == FenceDelimiterMatches(text)
        lineColor == IF theme = "Light" THEN "#cccccc" ELSE "#555555"
        RECURSIVE Loop(_, _)
        Loop(k, decs) ==
            IF k > Len(matches) THEN decs
            ELSE LET m        == matches[k]
                     position == getDocumentPosition(m.start, m.end, comment,
                                                     document, text)
                 IN  IF ~position.found \/ position.sl = activeLine
                     THEN Loop(k + 1, decs)
                     ELSE Loop(k + 1,
                               Push(Push(decs, "replace",
                                         RangeOnly(position.sl, position.sc,
                                                   position.el, position.ec)),
                                    "bold",
                                    Inserted(position.sl, position.sc,
                                             <<"FenceRule">> \o Substring(text, m.cs, m.ce),
                                             lineColor, "none")))
    IN  Loop(1, decorations)

\* range.start < fullStart in place of range.start <= fullStart
InsideSomeRangeStrictly(ranges, fullStart, fullEnd) ==
    \E r \in 1..Len(ranges) : fullStart > ranges[r].start /\ fullEnd <= ranges[r].end

\* codeBlockRanges.some(range => fullStart >= range.start && fullEnd <= range.end)
InsideSomeRange(ranges, fullStart, fullEnd) ==
    \E r \in 1..Len(ranges) : fullStart >= ranges[r].start /\ fullEnd <= ranges[r].end

\* textBeforeElement === '' || textBeforeElement === '*' || /^\*+$/.test(...)
IsAtLineStart(document, position) ==
    LET textBeforeElement == Trim(Substring(LineAt(document, position.sl), 0, position.sc))
    IN  \A k \in 1..Len(textBeforeElement) : textBeforeElement[k] = "*"

parseAndReplace(decorations, text, pattern, decorationType, comment, document, theme, activeLine, codeBlockRanges, applyGrayColor, applyLineStartIndent) ==
    LET color == IF applyGrayColor
                    /\ decorationType \in {"bold", "italic", "strikethrough"}
                 THEN getTextColor(theme) ELSE "none"
        \* the body of the while loop, for the match m and its position
        Emit(decs, m, position) ==
            LET margin == IF decorationType = "code" THEN "0px 2px"
                          ELSE IF IsAtLineStart(document, position)
                                  /\ applyLineStartIndent
                          THEN "0 0 0 1rem" ELSE "none"
            IN  IF InsideSomeRange(codeBlockRanges, m.start, m.end)
                THEN decs
                ELSE IF ~position.found
                THEN decs
                ELSE IF position.sl = activeLine \/ position.el = activeLine
                THEN decs
                ELSE Push(Push(decs, "replace",
                               RangeOnly(position.sl, position.sc,
                                         position.el, position.ec)),
                          decorationType,
                          Inserted(position.sl, position.sc,
                                   Substring(text, m.cs, m.ce), color, margin))
        RECURSIVE Loop(_, _, _)
        Loop(matches, k, decs) ==
            IF k > Len(matches) THEN decs
            ELSE Loop(matches, k + 1,
                      Emit(decs, matches[k],
                           getDocumentPosition(matches[k].start, matches[k].end,
                                               comment, document, text)))
    IN  Loop(ExecAll(text, pattern), 1, decorations)

parseLinks(decorations, text, comment, document, activeLine, codeBlockRanges) ==
    LET matches == ExecAll(text, "link")
        RECURSIVE Loop(_, _)
        Loop(k, decs) ==
            IF k > Len(matches) THEN decs
            ELSE LET m        == matches[k]
                     position == getDocumentPosition(m.start, m.end, comment,
                                                     document, text)
                 IN  IF InsideSomeRange(codeBlockRanges, m.start, m.end)
                     THEN Loop(k + 1, decs)
                     ELSE IF ~position.found
                     THEN Loop(k + 1, decs)
                     ELSE IF position.sl = activeLine \/ position.el = activeLine
                     THEN Loop(k + 1, decs)
                     ELSE Loop(k + 1,
                               Push(Push(decs, "replace",
                                         RangeOnly(position.sl, position.sc,
                                                   position.el, position.ec)),
                                    "code",
                                    Inserted(position.sl, position.sc,
                                             Substring(text, m.cs, m.ce),
                                             "#0066cc", "none")))
    IN  Loop(1, decorations)

\* the matches of /^#{level} (.*$)/gm : [start, end, cs, ce] per header line
\* (for levels 1 and 2 the source adds (?!#), which the space already implies)
HeaderMatches(text, level) ==
    LET lines  == Split(text)
        marker == [k \in 1..(level + 1) |-> IF k <= level THEN "#" ELSE " "]
        isHeader(i) == StartsWithAt(lines[i], marker, 0)
    IN  [k \in 1..Cardinality({i \in 1..Len(lines) : isHeader(i)}) |->
            LET i == CHOOSE i \in 1..Len(lines) :
                        /\ isHeader(i)
                        /\ Cardinality({j \in 1..i : isHeader(j)}) = k
                o == LineStartOffset(lines, i - 1)
            IN  [start |-> o, end |-> o + Len(lines[i]), cs |-> o + level + 1,
                 ce |-> o + Len(lines[i])]]

HeaderType(level) ==
    CASE level = 1 -> "header1" [] level = 2 -> "header2" [] level = 3 -> "header3"
      [] level = 4 -> "header4" [] level = 5 -> "header5" [] level = 6 -> "header6"
      [] level = 7 -> "header7"

parseHeaderLevel(decorations, text, level, comment, document, activeLine) ==
    LET \* the body of the while loop, for one match and its two positions
        Emit(decs, markersPosition, contentPosition) ==
            LET hidden ==
                    IF markersPosition.found
                    THEN Push(decs, "replace",
                              RangeOnly(markersPosition.sl, markersPosition.sc,
                                        markersPosition.el, markersPosition.ec))
                    ELSE decs
            IN  IF markersPosition.found /\ markersPosition.sl = activeLine
                THEN decs
                ELSE IF contentPosition.found
                THEN Push(hidden, HeaderType(level),
                          RangeOnly(contentPosition.sl, contentPosition.sc,
                                    contentPosition.el, contentPosition.ec))
                ELSE hidden
        RECURSIVE Loop(_, _, _)
        Loop(matches, k, decs) ==
            IF k > Len(matches) THEN decs
            ELSE Loop(matches, k + 1,
                      Emit(decs,
                           getDocumentPosition(matches[k].start, matches[k].cs,
                                               comment, document, text),
                           getDocumentPosition(matches[k].cs, matches[k].end,
                                               comment, document, text)))
    IN  Loop(HeaderMatches(text, level), 1, decorations)

parseHeadersWithNestedFormatting(decorations, text, comment, document, activeLine) ==
    LET RECURSIVE Levels(_, _)
        Levels(level, decs) ==
            IF level = 0 THEN decs
            ELSE Levels(level - 1,
                        parseHeaderLevel(decs, text, level, comment, document, activeLine))
    IN  Levels(7, decorations)

parseImages(decorations, text, comment, document, activeLine, codeBlockRanges) ==
    LET matches == ExecAll(text, "image")
        RECURSIVE Loop(_, _)
        Loop(k, decs) ==
            IF k > Len(matches) THEN decs
            ELSE LET m        == matches[k]
                     position == getDocumentPosition(m.start, m.end, comment,
                                                     document, text)
                 IN  IF InsideSomeRange(codeBlockRanges, m.start, m.end)
                     THEN Loop(k + 1, decs)
                     ELSE IF ~position.found
                     THEN Loop(k + 1, decs)
                     ELSE IF position.sl = activeLine \/ position.el = activeLine
                     THEN Loop(k + 1, decs)
                     ELSE Loop(k + 1,
                               Push(Push(decs, "replace",
                                         RangeOnly(position.sl, position.sc,
                                                   position.el, position.ec)),
                                    "italic",
                                    Inserted(position.sl, position.sc,
                                             <<"ImageIcon", " ">>
                                                 \o Substring(text, m.cs, m.ce),
                                             "#666666", "none")))
    IN  Loop(1, decorations)

\* exclusionRanges.some(range => matchStart >= range.start && matchStart < range.end)
StartsInSomeRange(ranges, matchStart) ==
    \E r \in 1..Len(ranges) : matchStart >= ranges[r].start /\ matchStart < ranges[r].end

\* the glyph decoration of a list or task marker: at column 0 of a code file
\* the glyph loses its trailing space and gets a 2ch margin
MarkerGlyph(markerPosition, glyph, color, languageId) ==
    IF ~IsMarkdownLanguage(languageId) /\ markerPosition.sc = 0
    THEN Inserted(markerPosition.sl, markerPosition.sc, glyph, color, "0 0 0 2ch")
    ELSE Inserted(markerPosition.sl, markerPosition.sc, glyph \o <<" ">>, color, "none")

parseTaskLists(decorations, text, comment, document, languageId, activeLine, exclusionRanges) ==
    LET matches == ExecAll(text, "task")
        RECURSIVE Loop(_, _)
        Loop(k, decs) ==
            IF k > Len(matches) THEN decs
            ELSE LET m == matches[k]
                     markerPosition ==
                         getDocumentPosition(m.marker, m.cs, comment, document, text)
                     isChecked == m.state \in {"x", "X"}
                 IN  IF StartsInSomeRange(exclusionRanges, m.start)
                     THEN Loop(k + 1, decs)
                     ELSE IF ~markerPosition.found \/ markerPosition.sl = activeLine
                     THEN Loop(k + 1, decs)
                     ELSE Loop(k + 1,
                               Push(Push(decs, "replace",
                                         RangeOnly(markerPosition.sl, markerPosition.sc,
                                                   markerPosition.el, markerPosition.ec)),
                                    "bold",
                                    MarkerGlyph(markerPosition,
                                                IF isChecked THEN <<"Checked">>
                                                ELSE <<"Unchecked">>,
                                                IF isChecked THEN "#4CAF50" ELSE "#808080",
                                                languageId)))
    IN  Loop(1, decorations)

\* /^\[([ xX])\]/.test(content)
IsTaskContent(content) ==
    /\ Len(content) >= 3
    /\ content[1] = "["
    /\ content[2] \in {" ", "x", "X"}
    /\ content[3] = "]"

parseBullets(decorations, text, comment, document, languageId, activeLine, exclusionRanges) ==
    LET matches == ExecAll(text, "bullet")
        RECURSIVE Loop(_, _)
        Loop(k, decs) ==
            IF k > Len(matches) THEN decs
            ELSE LET m       == matches[k]
                     content == Substring(text, m.cs, m.ce)
                     markerPosition ==
                         getDocumentPosition(m.marker, m.cs, comment, document, text)
                 IN  IF \/ StartsInSomeRange(exclusionRanges, m.start)
                        \/ IsTaskContent(content)
                        \/ Trim(content) = << >>
                     THEN Loop(k + 1, decs)
                     ELSE IF ~markerPosition.found \/ markerPosition.sl = activeLine
                     THEN Loop(k + 1, decs)
                     ELSE Loop(k + 1,
                               Push(Push(decs, "replace",
                                         RangeOnly(markerPosition.sl, markerPosition.sc,
                                                   markerPosition.el, markerPosition.ec)),
                                    "bold",
                                    MarkerGlyph(markerPosition, <<"Bullet">>,
                                                "#808080", languageId)))
    IN  Loop(1, decorations)

parseNumbered(decorations, text, comment, document, languageId, activeLine, exclusionRanges) ==
    LET matches == ExecAll(text, "numbered")
        RECURSIVE Loop(_, _)
        Loop(k, decs) ==
            IF k > Len(matches) THEN decs
            ELSE LET m == matches[k]
                     markerPosition ==
                         getDocumentPosition(m.marker, m.marker + (m.ce - m.cs) + 2,
                                             comment, document, text)
                 IN  IF StartsInSomeRange(exclusionRanges, m.start)
                     THEN Loop(k + 1, decs)
                     ELSE IF ~markerPosition.found \/ markerPosition.sl = activeLine
                     THEN Loop(k + 1, decs)
                     ELSE Loop(k + 1,
                               Push(Push(decs, "replace",
                                         RangeOnly(markerPosition.sl, markerPosition.sc,
                                                   markerPosition.el, markerPosition.ec)),
                                    "bold",
                                    MarkerGlyph(markerPosition,
                                                Substring(text, m.cs, m.ce) \o <<".">>,
                                                "#808080", languageId)))
    IN  Loop(1, decorations)

\* the bullet loop, then the numbered loop
parseLists(decorations, text, comment, document, languageId, activeLine, exclusionRanges) ==
    parseNumbered(
        parseBullets(decorations, text, comment, document, languageId, activeLine,
                     exclusionRanges),
        text, comment, document, languageId, activeLine, exclusionRanges)

applySyntaxPattern(decorations, codeContent, decorationType, codeBlockStart, comment, document, activeLine, fullText) ==
    LET matches == ExecAll(codeContent, decorationType)
        RECURSIVE Loop(_, _)
        Loop(k, decs) ==
            IF k > Len(matches) THEN decs
            ELSE LET m        == matches[k]
                     position == getDocumentPosition(codeBlockStart + m.start,
                                                     codeBlockStart + m.end,
                                                     comment, document, fullText)
                 IN  IF /\ position.found
                        /\ position.sl # activeLine
                        /\ position.el # activeLine
                     THEN Loop(k + 1,
                               Push(decs, decorationType,
                                    RangeOnly(position.sl, position.sc,
                                              position.el, position.ec)))
                     ELSE Loop(k + 1, decs)
    IN  Loop(1, decorations)

\* the order in which the tokenizer applies its patterns to a code block
SyntaxPasses ==
    <<"syntax-string", "syntax-comment", "syntax-keyword", "syntax-function",
      "syntax-number", "syntax-operator", "syntax-variable">>

applySyntaxHighlightingToCodeBlocks(decorations, text, comment, document, languageId, activeLine, codeBlockRanges) ==
    LET RECURSIVE Passes(_, _, _)
        Passes(p, codeBlock, decs) ==
            IF p > Len(SyntaxPasses) THEN decs
            ELSE Passes(p + 1, codeBlock,
                        applySyntaxPattern(decs,
                            Substring(text, codeBlock.start, codeBlock.end),
                            SyntaxPasses[p], codeBlock.start, comment, document,
                            activeLine, text))
        RECURSIVE Blocks(_, _)
        Blocks(b, decs) ==
            IF b > Len(codeBlockRanges) THEN decs
            ELSE Blocks(b + 1, Passes(1, codeBlockRanges[b], decs))
    IN  Blocks(1, applyCodeBlockBackground(decorations, comment, document,
                                           languageId, activeLine))

\* the single-line parse with the header pass of the multi-line parse added
parseSingleLineWithHeaders(decorations, text, comment, document, theme, activeLine) ==
    LET d1 == parseLinks(decorations, text, comment, document, activeLine, << >>)
        d2 == parseAndReplace(d1, text, "bold", "bold", comment, document, theme,
                              activeLine, << >>, FALSE, TRUE)
    IN  parseHeadersWithNestedFormatting(d2, text, comment, document, activeLine)

parseSingleLineComment(decorations, text, comment, document, theme, activeLine) ==
    LET d1 == parseLinks(decorations, text, comment, document, activeLine, << >>)
        d2 == parseAndReplace(d1, text, "bold", "bold", comment, document, theme,
                              activeLine, << >>, FALSE, TRUE)
        d3 == parseAndReplace(d2, text, "italic", "italic", comment, document, theme,
                              activeLine, << >>, FALSE, TRUE)
        d4 == parseAndReplace(d3, text, "code", "code", comment, document, theme,
                              activeLine, << >>, FALSE, TRUE)
    IN  parseAndReplace(d4, text, "strikethrough", "strikethrough", comment,
                        document, theme, activeLine, << >>, FALSE, TRUE)

parseMultiLineComment(decorations, text, comment, document, languageId, theme, activeLine) ==
    LET codeBlockRanges == getCodeBlockRanges(text)
        d1  == applyGrayColorExcludingCodeBlocks(decorations, comment, document, text)
        d2  == applySyntaxHighlightingToCodeBlocks(d1, text, comment, document,
                                                   languageId, activeLine, codeBlockRanges)
        d3  == replaceCommentDelimiters(d2, comment, theme, activeLine)
        d4  == hideAsteriskPrefixes(d3, comment, activeLine)
        d5  == replaceCodeBlockDelimiters(d4, text, comment, document, theme, activeLine)
        d6  == addLineIndentation(d5, comment, document, activeLine)
        d7  == parseAndReplace(d6, text, "bold", "bold", comment, document, theme,
                               activeLine, codeBlockRanges, TRUE, TRUE)
        d8  == parseAndReplace(d7, text, "italicBlock", "italic", comment, document,
                               theme, activeLine, codeBlockRanges, TRUE, TRUE)
        d9  == parseAndReplace(d8, text, "code", "code", comment, document, theme,
                               activeLine, codeBlockRanges, TRUE, TRUE)
        d10 == parseAndReplace(d9, text, "strikethrough", "strikethrough", comment,
                               document, theme, activeLine, codeBlockRanges, TRUE, TRUE)
        d11 == parseLinks(d10, text, comment, document, activeLine, codeBlockRanges)
        d12 == parseImages(d11, text, comment, document, activeLine, codeBlockRanges)
        d13 == parseTaskLists(d12, text, comment, document, languageId, activeLine, << >>)
        d14 == parseLists(d13, text, comment, document, languageId, activeLine, << >>)
    IN  parseHeadersWithNestedFormatting(d14, text, comment, document, activeLine)

parseMarkdownInComment(decorations, comment, document, languageId, theme, activeLine) ==
    IF comment.startLine = comment.endLine
    THEN parseSingleLineComment(decorations, comment.text, comment, document, theme,
                                activeLine)
    ELSE parseMultiLineComment(decorations, comment.text, comment, document,
                               languageId, theme, activeLine)

applyMarkdownLineBackground(decorations, comment, document, activeLine) ==
    LET RECURSIVE Mark(_, _, _)
        Mark(lineNum, inCodeBlock, codeBlockLines) ==
            IF lineNum > comment.endLine THEN codeBlockLines
            ELSE IF StartsWithAt(LineAt(document, lineNum), Fence, 0)
            THEN Mark(lineNum + 1, ~inCodeBlock, codeBlockLines \cup {lineNum})
            ELSE IF inCodeBlock
            THEN Mark(lineNum + 1, inCodeBlock, codeBlockLines \cup {lineNum})
            ELSE Mark(lineNum + 1, inCodeBlock, codeBlockLines)
        RECURSIVE Loop(_, _)
        Loop(lineNum, decs) ==
            IF lineNum > comment.endLine THEN decs
            ELSE IF lineNum = activeLine \/ lineNum \in Mark(comment.startLine, FALSE, {})
            THEN Loop(lineNum + 1, decs)
            ELSE Loop(lineNum + 1,
                      Push(decs, "markdownLine",
                           RangeOnly(lineNum, 0, lineNum, MAX_SAFE_INTEGER)))
    IN  Loop(comment.startLine, decorations)

\* the [start, end) ranges of the HTML comments of text
HtmlCommentRanges(text) ==
    LET matches == ExecAll(text, "htmlComment")
    IN  [k \in 1..Len(matches) |-> [start |-> matches[k].start, end |-> matches[k].end]]

parseMarkdownFile(decorations, text, comment, document, languageId, theme, activeLine) ==
    LET codeBlockRanges == getCodeBlockRanges(text)
        exclusionRanges == HtmlCommentRanges(text) \o codeBlockRanges
        d1  == applyMarkdownLineBackground(decorations, comment, document, activeLine)
        d2  == applySyntaxHighlightingToCodeBlocks(d1, text, comment, document,
                                                   languageId, activeLine, codeBlockRanges)
        d3  == replaceCodeBlockDelimiters(d2, text, comment, document, theme, activeLine)
        d4  == parseAndReplace(d3, text, "bold", "bold", comment, document, theme,
                               activeLine, exclusionRanges, TRUE, FALSE)
        d5  == parseAndReplace(d4, text, "italic", "italic", comment, document, theme,
                               activeLine, exclusionRanges, TRUE, FALSE)
        d6  == parseAndReplace(d5, text, "code", "code", comment, document, theme,
                               activeLine, exclusionRanges, TRUE, FALSE)
        d7  == parseAndReplace(d6, text, "strikethrough", "strikethrough", comment,
                               document, theme, activeLine, exclusionRanges, TRUE, FALSE)
        d8  == parseLinks(d7, text, comment, document, activeLine, exclusionRanges)
        d9  == parseImages(d8, text, comment, document, activeLine, exclusionRanges)
        d10 == parseTaskLists(d9, text, comment, document, languageId, activeLine,
                              exclusionRanges)
        d11 == parseLists(d10, text, comment, document, languageId, activeLine,
                          exclusionRanges)
    IN  parseHeadersWithNestedFormatting(d11, text, comment, document, activeLine)

\* the synthetic block of a markdown file: the whole document
MarkdownBlock(text) ==
    [text          |-> text,
     startLine     |-> 0,
     endLine       |-> LineCount(text) - 1,
     startChar     |-> 0,
     endChar       |-> Len(LineAt(text, LineCount(text) - 1)),
     originalLines |-> Split(text),
     cleanedLines  |-> << >>]

\* the comment blocks that updateDecorations caches for a document
CommentBlocksOf(text, languageId) ==
    IF IsMarkdownLanguage(languageId) THEN <<MarkdownBlock(text)>>
    ELSE extractComments(text, languageId)

\* the decorations that updateDecorations computes on a cache miss, added to
\* the map allDecorations; every parse is called with activeLine = -1
ParseInto(allDecorations, text, languageId, theme) ==
    LET commentBlocks == CommentBlocksOf(text, languageId)
        RECURSIVE Each(_, _)
        Each(k, decs) ==
            IF k > Len(commentBlocks) THEN decs
            ELSE Each(k + 1,
                      parseMarkdownInComment(decs, commentBlocks[k], text, languageId,
                                             theme, -1))
    IN  IF IsMarkdownLanguage(languageId)
        THEN parseMarkdownFile(allDecorations, text, commentBlocks[1], text,
                               languageId, theme, -1)
        ELSE Each(1, allDecorations)

(***************************************************************************)
(* The host: the open documents, the editors that show them, the colour    *)
(* theme.  An editor is named by its view column; visibleTextEditors lists *)
(* the visible editors in column order.  Which document each column shows  *)
(* is fixed when the window is laid out.                                   *)
(***************************************************************************)
Documents == {"a.ts", "b.md", "c.txt"}

languageIdOf(document) ==
    CASE document = "a.ts" -> "typescript"
      [] document = "b.md" -> "markdown"
      [] OTHER             -> "plaintext"

supportedLanguages ==
    {"typescript", "javascript", "javascriptreact", "typescriptreact", "python",
     "java", "csharp", "cpp", "c", "go", "rust", "php", "markdown", "instructions"}

\* the number of view columns
Columns == 2

Editors == 1..Columns

\* a.ts in the first column; beside it a markdown file, a split view of a.ts
\* itself, or a plain text file
Layouts ==
    {[e \in Editors |-> IF e = 1 THEN "a.ts" ELSE beside] :
        beside \in {"b.md", "a.ts", "c.txt"}}

NoEditor == 0

Themes == {"Dark", "Light"}

\* a.ts as first opened, lines: /* a // b |  * **c** */ | z
TsBlockText ==
    <<"/", "*", " ", "a", " ", "/", "/", " ", "b", NL, " ", "*", " ", "*",
      "*", "c", "*", "*", " ", "*", "/", NL, "z">>

\* a.ts after an edit, lines: /* *a* | **b**
TsOpenText ==
    <<"/", "*", " ", "*", "a", "*", NL, "*", "*", "b", "*", "*">>

\* b.md as first opened, lines: # h | **b**
MdText ==
    <<"#", " ", "h", NL, "*", "*", "b", "*", "*">>

\* b.md after an edit, lines: *i*
MdEditedText ==
    <<"*", "i", "*">>

\* c.txt as first opened, lines: // *a*
TxtText ==
    <<"/", "/", " ", "*", "a", "*">>

\* c.txt after an edit, lines: z
TxtEditedText ==
    <<"z">>

\* the texts an edit can leave in each document
EditedTexts ==
    "a.ts" :> {TsBlockText, TsOpenText}
    @@ "b.md" :> {MdText, MdEditedText}
    @@ "c.txt" :> {TxtText, TxtEditedText}

\* the last line of the longest text
MaxLine == Max({LineCount(t) : t \in UNION {EditedTexts[d] : d \in Documents}}) - 1

AllTexts == UNION {EditedTexts[d] : d \in Documents}

InitialText == "a.ts" :> TsBlockText @@ "b.md" :> MdText @@ "c.txt" :> TxtText

\* what updateDecorations computes and caches on a cache miss
ParseDocument(text, languageId, theme) ==
    [commentBlocks  |-> CommentBlocksOf(text, languageId),
     allDecorations |-> ParseInto(EmptyDecorations, text, languageId, theme)]

\* ParseDocument of every text the documents can hold, under every theme
ParseTable ==
    {[text       |-> text,
      languageId |-> languageIdOf(document),
      theme      |-> theme,
      parsed     |-> ParseDocument(text, languageIdOf(document), theme)] :
        <<document, text, theme>> \in
            {<<d, t, th>> \in Documents \X AllTexts \X Themes : t \in EditedTexts[d]}}

\* ParseDocument(text, languageId, theme), read from the table parser
Parse(parser, text, languageId, theme) ==
    (CHOOSE r \in parser : /\ r.text = text
                           /\ r.languageId = languageId
                           /\ r.theme = theme).parsed

(***************************************************************************)
(* The state: the provider's fields, what the host shows, and history      *)
(* variables that record what the last event did.                          *)
(***************************************************************************)
VARIABLES
    isEnabled,            \* _isEnabled
    lastActiveLine,       \* one field for all documents
    cachedDecorations,    \* document -> allDecorations, where an entry exists
    cachedCommentBlocks,  \* document -> commentBlocks, where an entry exists
    updateTimeout,        \* the document of the pending debounce timer, or NoTimeout
    getText,              \* document -> document.getText()
    editorDocument,       \* editor -> editor.document
    visibleTextEditors,   \* the visible editors
    activeTextEditor,     \* an editor, or NoEditor
    selection,            \* editor -> editor.selection.active.line
    editorDecorations,    \* editor -> the lists setDecorations last gave it
    colorTheme,
    hTracked,             \* history: document -> the line lastActiveLine would
                          \* hold if the provider kept one per document
    hRendered,            \* history: editors the last event called setDecorations on
    hMissed,              \* history: documents whose request the last event cut
                          \* short although that document's own line had changed
    hForced,              \* history: documents the last event ran forceUpdate on
    hLeft,                \* history: editors the last event rendered with the
                          \* cursor outside every block, after it had found the
                          \* cursor inside one
    hParsed,              \* history: documents whose text the last event ran
                          \* comment extraction and the parse on
    source,               \* the document that the parsing methods are applied
                          \* to on their own, with its comment blocks
    applied               \* the last such application: the method, its
                          \* arguments and what it returned or emitted

providerVars ==
    <<isEnabled, lastActiveLine, cachedDecorations, cachedCommentBlocks,
      updateTimeout, getText, editorDocument, visibleTextEditors,
      activeTextEditor, selection,
      editorDecorations, colorTheme, hTracked, hRendered, hMissed, hForced,
      hLeft, hParsed>>

vars == <<providerVars, source, applied>>

NoTimeout == "none"

\* the state as one record, so that a handler is a function from state to
\* state; parser is the table of the parsing methods the handlers call
Reached(parser) ==
    [parser              |-> parser,
     isEnabled           |-> isEnabled,
     lastActiveLine      |-> lastActiveLine,
     cachedDecorations   |-> cachedDecorations,
     cachedCommentBlocks |-> cachedCommentBlocks,
     updateTimeout       |-> updateTimeout,
     getText             |-> getText,
     editorDocument      |-> editorDocument,
     visibleTextEditors  |-> visibleTextEditors,
     activeTextEditor    |-> activeTextEditor,
     selection           |-> selection,
     editorDecorations   |-> editorDecorations,
     colorTheme          |-> colorTheme,
     hTracked            |-> hTracked,
     hRendered           |-> {},
     hMissed             |-> {},
     hForced             |-> {},
     hLeft               |-> {},
     hParsed             |-> {},
     hWas                |-> selection]

\* the next state is st
Becomes(st) ==
    /\ isEnabled' = st.isEnabled
    /\ lastActiveLine' = st.lastActiveLine
    /\ cachedDecorations' = st.cachedDecorations
    /\ cachedCommentBlocks' = st.cachedCommentBlocks
    /\ updateTimeout' = st.updateTimeout
    /\ getText' = st.getText
    /\ editorDocument' = st.editorDocument
    /\ visibleTextEditors' = st.visibleTextEditors
    /\ activeTextEditor' = st.activeTextEditor
    /\ selection' = st.selection
    /\ editorDecorations' = st.editorDecorations
    /\ colorTheme' = st.colorTheme
    /\ hTracked' = st.hTracked
    /\ hRendered' = st.hRendered
    /\ hMissed' = st.hMissed
    /\ hForced' = st.hForced
    /\ hLeft' = st.hLeft
    /\ hParsed' = st.hParsed
    /\ UNCHANGED <<source, applied>>

\* Map.delete and Map.set
MapDelete(map, key) == [k \in DOMAIN map \ {key} |-> map[k]]

MapSet(map, key, value) ==
    [k \in DOMAIN map \cup {key} |-> IF k = key THEN value ELSE map[k]]

\* visibleTextEditors.find(e => e.document === document)
FindEditor(st, document) ==
    LET shown == {e \in st.visibleTextEditors : st.editorDocument[e] = document}
    IN  IF shown = {} THEN NoEditor ELSE Min(shown)

NoBlock == [found |-> FALSE, startLine |-> -1, endLine |-> -1]

\* the blocks with line >= block.startLine && line <= block.endLine
HoldingBlocks(commentBlocks, line) ==
    {k \in 1..Len(commentBlocks) : /\ line >= commentBlocks[k].startLine
                                   /\ line <= commentBlocks[k].endLine}

\* a faulty ActiveCommentBlock: the whole-file block of a markdown file counts
ActiveCommentBlockAnyLanguage(commentBlocks, languageId, activeLine) ==
    LET holding == HoldingBlocks(commentBlocks, activeLine)
    IN  IF holding = {} THEN NoBlock
        ELSE [found     |-> TRUE,
              startLine |-> commentBlocks[Min(holding)].startLine,
              endLine   |-> commentBlocks[Min(holding)].endLine]

\* the first block that holds the active line; none in a markdown file
ActiveCommentBlock(commentBlocks, languageId, activeLine) ==
    LET holding == HoldingBlocks(commentBlocks, activeLine)
    IN  IF IsMarkdownLanguage(languageId) \/ holding = {} THEN NoBlock
        ELSE [found     |-> TRUE,
              startLine |-> commentBlocks[Min(holding)].startLine,
              endLine   |-> commentBlocks[Min(holding)].endLine]

\* a faulty FilterDecorations: outside a block, the line above the cursor is
\* dropped as well
FilterDecorationsOffByOne(allDecorations, activeCommentBlock, activeLine) ==
    LET Keep(decoration) ==
            IF activeCommentBlock.found
            THEN \/ decoration.sl < activeCommentBlock.startLine
                 \/ decoration.sl > activeCommentBlock.endLine
            ELSE decoration.sl \notin {activeLine - 1, activeLine}
    IN  [type \in DOMAIN allDecorations |-> SelectSeq(allDecorations[type], Keep)]

\* filteredDecorations: by the start line of each decoration's range
FilterDecorations(allDecorations, activeCommentBlock, activeLine) ==
    LET Keep(decoration) ==
            IF activeCommentBlock.found
            THEN \/ decoration.sl < activeCommentBlock.startLine
                 \/ decoration.sl > activeCommentBlock.endLine
            ELSE decoration.sl # activeLine
    IN  [type \in DOMAIN allDecorations |-> SelectSeq(allDecorations[type], Keep)]

updateDecorations(st, document) ==
    LET editor     == FindEditor(st, document)
        activeLine == st.selection[editor]
        cached     == /\ document \in DOMAIN st.cachedDecorations
                      /\ document \in DOMAIN st.cachedCommentBlocks
        parsed     == Parse(st.parser, st.getText[document],
                            languageIdOf(document), st.colorTheme)
        allDecorations == IF cached THEN st.cachedDecorations[document]
                          ELSE parsed.allDecorations
        commentBlocks  == IF cached THEN st.cachedCommentBlocks[document]
                          ELSE parsed.commentBlocks
        activeCommentBlock ==
            ActiveCommentBlock(commentBlocks, languageIdOf(document), activeLine)
        expected   == st.hTracked[document] # activeLine
        left       == /\ ~IsMarkdownLanguage(languageIdOf(document))
                      /\ HoldingBlocks(commentBlocks, st.hWas[editor]) # {}
                      /\ HoldingBlocks(commentBlocks, activeLine) = {}
    IN  IF ~st.isEnabled THEN st
        ELSE IF editor = NoEditor THEN st
        ELSE IF activeLine = st.lastActiveLine
        THEN [st EXCEPT !.hTracked[document] = activeLine,
                        !.hMissed = IF expected THEN @ \cup {document} ELSE @]
        ELSE [st EXCEPT
                 !.lastActiveLine = activeLine,
                 !.cachedDecorations = MapSet(@, document, allDecorations),
                 !.cachedCommentBlocks = MapSet(@, document, commentBlocks),
                 !.editorDecorations[editor] =
                     FilterDecorations(allDecorations, activeCommentBlock, activeLine),
                 !.hTracked[document] = activeLine,
                 !.hRendered = @ \cup {editor},
                 !.hLeft = IF left THEN @ \cup {editor} ELSE @ \ {editor},
                 !.hParsed = IF cached THEN @ ELSE @ \cup {document}]

\* a faulty forceUpdate: the cache entries of the document are kept
forceUpdateKeepingCache(st, document) ==
    updateDecorations(
        [st EXCEPT !.lastActiveLine = -1,
                   !.hTracked[document] = -1,
                   !.hForced = @ \cup {document}],
        document)

forceUpdate(st, document) ==
    updateDecorations(
        [st EXCEPT !.cachedDecorations = MapDelete(@, document),
                   !.cachedCommentBlocks = MapDelete(@, document),
                   !.lastActiveLine = -1,
                   !.hTracked[document] = -1,
                   !.hForced = @ \cup {document}],
        document)

\* visibleTextEditors.forEach(editor => forceUpdate(editor.document)), in
\* column order from column e on; supportedOnly is the language test that
\* the theme handler makes and toggle does not
RECURSIVE ForceUpdateVisible(_, _, _)
ForceUpdateVisible(st, e, supportedOnly) ==
    IF e > Columns THEN st
    ELSE IF /\ e \in st.visibleTextEditors
            /\ (supportedOnly =>
                   languageIdOf(st.editorDocument[e]) \in supportedLanguages)
    THEN ForceUpdateVisible(forceUpdate(st, st.editorDocument[e]), e + 1,
                            supportedOnly)
    ELSE ForceUpdateVisible(st, e + 1, supportedOnly)

\* every visible editor gets an empty list for every decoration type
clearAllDecorations(st) ==
    [st EXCEPT !.editorDecorations =
        [e \in Editors |-> IF e \in st.visibleTextEditors THEN EmptyDecorations
                           ELSE @[e]]]

\* disposing the decoration types removes their decorations from every editor
reinitializeForTheme(st) ==
    [st EXCEPT !.editorDecorations = [e \in Editors |-> EmptyDecorations],
               !.cachedDecorations = << >>]

toggle(st) ==
    IF ~st.isEnabled
    THEN ForceUpdateVisible([st EXCEPT !.isEnabled = TRUE], 1, FALSE)
    ELSE clearAllDecorations([st EXCEPT !.isEnabled = FALSE])

isInCommentBlock(st, document, line) ==
    /\ ~IsMarkdownLanguage(languageIdOf(document))
    /\ document \in DOMAIN st.cachedCommentBlocks
    /\ HoldingBlocks(st.cachedCommentBlocks[document], line) # {}

\* a faulty exitCommentBlockTextMode: it makes room for the cursor by adding a
\* line to the document
exitByAddingLine(st, editor) ==
    LET document      == st.editorDocument[editor]
        currentLine   == st.selection[editor]
        commentBlocks == st.cachedCommentBlocks[document]
        holding       == HoldingBlocks(commentBlocks, currentLine)
    IN  IF document \notin DOMAIN st.cachedCommentBlocks THEN st
        ELSE IF holding = {} THEN st
        ELSE updateDecorations(
                 [st EXCEPT !.selection[editor] =
                                commentBlocks[Min(holding)].endLine + 1,
                            !.getText[document] = Append(@, NL)],
                 document)

\* the cursor goes to the line after the first block that holds it; the
\* editor keeps the position it was given, also when it is past the last line
exitCommentBlockTextMode(st, editor) ==
    LET document      == st.editorDocument[editor]
        currentLine   == st.selection[editor]
        commentBlocks == st.cachedCommentBlocks[document]
        holding       == HoldingBlocks(commentBlocks, currentLine)
    IN  IF document \notin DOMAIN st.cachedCommentBlocks THEN st
        ELSE IF holding = {} THEN st
        ELSE updateDecorations(
                 [st EXCEPT !.selection[editor] =
                                commentBlocks[Min(holding)].endLine + 1],
                 document)

\* a timer that has fired is no longer pending: clearTimeout on it does nothing
updateDecorationsDebounced(st, document) ==
    [st EXCEPT !.updateTimeout = document]

(***************************************************************************)
(* Init: the provider as constructed, activate() run with no editor open.  *)
(***************************************************************************)
ProviderInit ==
    /\ isEnabled = TRUE
    /\ lastActiveLine = -1
    /\ cachedDecorations = << >>
    /\ cachedCommentBlocks = << >>
    /\ updateTimeout = NoTimeout
    /\ getText = InitialText
    /\ editorDocument \in Layouts
    /\ visibleTextEditors = {}
    /\ activeTextEditor = NoEditor
    /\ selection = [e \in Editors |-> 0]
    /\ editorDecorations = [e \in Editors |-> EmptyDecorations]
    /\ colorTheme = "Dark"
    /\ hTracked = [d \in Documents |-> -1]
    /\ hRendered = {}
    /\ hMissed = {}
    /\ hForced = {}
    /\ hLeft = {}
    /\ hParsed = {}

NoComment ==
    [text |-> << >>, startLine |-> -1, endLine |-> -1, startChar |-> 0,
     endChar |-> 0, originalLines |-> << >>, cleanedLines |-> << >>]

\* no method has been applied on its own
NotApplied ==
    [method |-> "none", comment |-> NoComment, pattern |-> "none", level |-> 0,
     line |-> -1, matchStart |-> -1, matchEnd |-> -1, position |-> NullPosition,
     decorations |-> EmptyDecorations]

NoSource == [text |-> << >>, languageId |-> "plaintext", commentBlocks |-> << >>]

Init ==
    /\ ProviderInit
    /\ source = NoSource
    /\ applied = NotApplied

(***************************************************************************)
(* The events of the host and the handlers activate() wires to them.       *)
(***************************************************************************)
\* the documents the window has open
OpenDocuments == {editorDocument[e] : e \in Editors}

IsSupported(document) == languageIdOf(document) \in supportedLanguages

\* an editor opens in its column, its cursor on the first line
ShowEditor(e, parser) ==
    /\ e \notin visibleTextEditors
    /\ Becomes([Reached(parser) EXCEPT !.visibleTextEditors = @ \cup {e}])

\* onDidChangeActiveTextEditor(editor)
FocusEditor(e, parser) ==
    /\ e \in visibleTextEditors
    /\ e # activeTextEditor
    /\ LET st == [Reached(parser) EXCEPT !.activeTextEditor = e]
       IN  Becomes(IF IsSupported(editorDocument[e])
                   THEN forceUpdate(st, editorDocument[e]) ELSE st)

\* the editor closes and its decorations go with it;
\* onDidChangeActiveTextEditor(undefined) when it was the active one
CloseEditor(e, parser) ==
    /\ e \in visibleTextEditors
    /\ Becomes([Reached(parser) EXCEPT
                   !.visibleTextEditors = @ \ {e},
                   !.activeTextEditor = IF @ = e THEN NoEditor ELSE @,
                   !.selection[e] = 0,
                   !.editorDecorations[e] = EmptyDecorations])

\* onDidOpenTextDocument(document)
OpenTextDocument(document, parser) ==
    /\ document \in OpenDocuments
    /\ IsSupported(document)
    /\ Becomes(updateDecorations(Reached(parser), document))

\* onDidChangeTextEditorSelection: the cursor of a visible editor is put on
\* a line of its document (also the line it is on: a move within the line)
SelectionChange(e, line, parser) ==
    /\ e \in visibleTextEditors
    /\ line \in 0..(LineCount(getText[editorDocument[e]]) - 1)
    /\ LET st == [Reached(parser) EXCEPT !.selection[e] = line]
       IN  Becomes(IF IsSupported(editorDocument[e])
                   THEN updateDecorations(st, editorDocument[e]) ELSE st)

\* onDidChangeTextDocument: the text becomes newText, the cursors of the
\* document's editors stay within it
TextChange(document, newText, parser) ==
    /\ document \in OpenDocuments
    /\ newText \in EditedTexts[document]
    /\ newText # getText[document]
    /\ LET st == [Reached(parser) EXCEPT
                     !.getText[document] = newText,
                     !.selection =
                         [e \in Editors |->
                             IF editorDocument[e] = document
                             THEN Min({@[e], LineCount(newText) - 1}) ELSE @[e]]]
       IN  Becomes(IF IsSupported(document) THEN forceUpdate(st, document) ELSE st)

\* onDidChangeActiveColorTheme
ThemeChange(theme, parser) ==
    /\ theme # colorTheme
    /\ Becomes(ForceUpdateVisible(
                   reinitializeForTheme([Reached(parser) EXCEPT !.colorTheme = theme]),
                   1, TRUE))

\* the command md-in-comments.toggle
ToggleCommand(parser) == Becomes(toggle(Reached(parser)))

\* the command md-in-comments.escapeCommentBlock
EscapeCommand(parser) ==
    /\ activeTextEditor # NoEditor
    /\ isEnabled
    /\ isInCommentBlock(Reached(parser), editorDocument[activeTextEditor],
                        selection[activeTextEditor])
    /\ Becomes(exitCommentBlockTextMode(Reached(parser), activeTextEditor))

\* a call of updateDecorationsDebounced(document)
DebouncedRequest(document, parser) ==
    /\ document \in OpenDocuments
    /\ Becomes(updateDecorationsDebounced(Reached(parser), document))

\* the debounce delay has passed
TimerFires(parser) ==
    /\ updateTimeout # NoTimeout
    /\ Becomes(updateDecorations([Reached(parser) EXCEPT !.updateTimeout = NoTimeout],
                                 updateTimeout))

Next ==
    \E parser \in {ParseTable} :
        \/ \E e \in Editors : ShowEditor(e, parser)
        \/ \E e \in Editors : FocusEditor(e, parser)
        \/ \E e \in Editors : CloseEditor(e, parser)
        \/ \E document \in Documents : OpenTextDocument(document, parser)
        \/ \E e \in Editors, line \in 0..MaxLine : SelectionChange(e, line, parser)
        \/ \E document \in Documents, newText \in AllTexts :
               TextChange(document, newText, parser)
        \/ \E theme \in Themes : ThemeChange(theme, parser)
        \/ ToggleCommand(parser)
        \/ EscapeCommand(parser)
        \/ \E document \in Documents : DebouncedRequest(document, parser)
        \/ TimerFires(parser)

Spec == Init /\ [][Next]_vars

(***************************************************************************)
(* The parsing methods on their own.  The document is one generated line   *)
(* of text: the body of a block comment, the text of a line comment, or a  *)
(* markdown file.  A step applies one method to one comment block of the   *)
(* document, with the arguments that the parse of the block gives it.      *)
(***************************************************************************)
MapperAlphabet == {"*", " ", "#", "a"}

MaxContent == 5

Contents == UNION {[1..n -> MapperAlphabet] : n \in 0..MaxContent}

Document(text, languageId) ==
    [text |-> text, languageId |-> languageId,
     commentBlocks |-> CommentBlocksOf(text, languageId)]

Sources ==
    {Document(SlashStar \o <<NL>> \o content \o <<NL>> \o StarSlash, "typescript") :
        content \in Contents}
    \cup {Document(SlashSlash \o <<" ">> \o content, "typescript") :
              content \in Contents}
    \cup {Document(content, "markdown") : content \in Contents}

\* the block is parsed by parseSingleLineComment
IsSingleLine(comment, languageId) ==
    ~IsMarkdownLanguage(languageId) /\ comment.startLine = comment.endLine

\* the calls of parseAndReplace in the parse of the block
ReplacePasses(comment, languageId) ==
    {[pattern              |-> pattern,
      decorationType       |-> IF pattern = "italicBlock" THEN "italic" ELSE pattern,
      applyGrayColor       |-> ~IsSingleLine(comment, languageId),
      applyLineStartIndent |-> ~IsMarkdownLanguage(languageId)] :
        pattern \in {"bold", "code", "strikethrough",
                     IF IsMarkdownLanguage(languageId)
                        \/ IsSingleLine(comment, languageId)
                     THEN "italic" ELSE "italicBlock"}}

\* the codeBlockRanges argument in the parse of the block
ExclusionRanges(comment, languageId) ==
    IF IsSingleLine(comment, languageId) THEN << >>
    ELSE IF IsMarkdownLanguage(languageId)
    THEN HtmlCommentRanges(comment.text) \o getCodeBlockRanges(comment.text)
    ELSE getCodeBlockRanges(comment.text)

MapperInit ==
    /\ ProviderInit
    /\ editorDocument = [e \in Editors |-> "a.ts"]
    /\ source \in Sources
    /\ applied = NotApplied

\* getDocumentPosition for a match of a pattern of the block's parse
MapMatch(k) ==
    /\ applied.method = "none"
    /\ \E comment \in {source.commentBlocks[k]} :
         \E pass \in ReplacePasses(comment, source.languageId) :
             \E matches \in {ExecAll(comment.text, pass.pattern)} :
                 \E i \in DOMAIN matches :
                     applied' =
                         [NotApplied EXCEPT
                             !.method     = "getDocumentPosition",
                             !.comment    = comment,
                             !.pattern    = pass.pattern,
                             !.matchStart = matches[i].start,
                             !.matchEnd   = matches[i].end,
                             !.position   =
                                 getDocumentPosition(matches[i].start,
                                                     matches[i].end, comment,
                                                     source.text, comment.text)]
    /\ UNCHANGED <<providerVars, source>>

\* one call of parseAndReplace of the block's parse, on an empty map
ReplacePass(k) ==
    /\ applied.method = "none"
    /\ \E comment \in {source.commentBlocks[k]} :
         \E pass \in ReplacePasses(comment, source.languageId) :
             applied' =
                 [NotApplied EXCEPT
                     !.method      = "parseAndReplace",
                     !.comment     = comment,
                     !.pattern     = pass.pattern,
                     !.decorations =
                         parseAndReplace(EmptyDecorations, comment.text,
                                         pass.pattern, pass.decorationType,
                                         comment, source.text, colorTheme, -1,
                                         ExclusionRanges(comment, source.languageId),
                                         pass.applyGrayColor,
                                         pass.applyLineStartIndent)]
    /\ UNCHANGED <<providerVars, source>>

\* one call of parseHeaderLevel of the block's parse, on an empty map
HeaderPass(k, level) ==
    /\ applied.method = "none"
    /\ \E comment \in {source.commentBlocks[k]} :
         /\ ~IsSingleLine(comment, source.languageId)
         /\ applied' =
                [NotApplied EXCEPT
                    !.method      = "parseHeaderLevel",
                    !.comment     = comment,
                    !.level       = level,
                    !.decorations =
                        parseHeaderLevel(EmptyDecorations, comment.text, level,
                                         comment, source.text, -1)]
    /\ UNCHANGED <<providerVars, source>>

\* the levels that parseHeadersWithNestedFormatting runs parseHeaderLevel for
HeaderLevels == 1..7

MapperNext ==
    \/ \E k \in DOMAIN source.commentBlocks : MapMatch(k)
    \/ \E k \in DOMAIN source.commentBlocks : ReplacePass(k)
    \/ \E k \in DOMAIN source.commentBlocks, level \in HeaderLevels :
           HeaderPass(k, level)

MapperSpec == MapperInit /\ [][MapperNext]_vars

(***************************************************************************)
(* Comment extraction on its own.  The document is a short sequence of     *)
(* tokens: comment markers, the decorative prefix of a block comment line, *)
(* a doubled asterisk, a letter and the line break.  A step extracts the   *)
(* comment blocks of the document, or the block comment that starts on one *)
(* of its lines.                                                           *)
(***************************************************************************)
ExtractTokens ==
    {SlashStar, StarSlash, SlashSlash, <<" ", "*", " ">>, <<"*", "*">>, <<"a">>, <<NL>>}

MaxTokens == 5

RECURSIVE Flatten(_)
Flatten(parts) ==
    IF parts = << >> THEN << >> ELSE Head(parts) \o Flatten(Tail(parts))

ExtractTexts ==
    {Flatten(parts) : parts \in UNION {[1..n -> ExtractTokens] : n \in 1..MaxTokens}}

ExtractInit ==
    /\ ProviderInit
    /\ editorDocument = [e \in Editors |-> "a.ts"]
    /\ source \in {[text |-> text, languageId |-> "typescript", commentBlocks |-> << >>] :
                      text \in ExtractTexts}
    /\ applied = NotApplied

\* extractComments(document.getText(), document.languageId)
ExtractComments ==
    /\ applied.method = "none"
    /\ source' = [source EXCEPT
                     !.commentBlocks = extractComments(source.text, source.languageId)]
    /\ applied' = [NotApplied EXCEPT !.method = "extractComments"]
    /\ UNCHANGED providerVars

\* extractMultiLineComment(lines, i, patterns.multiLineEnd[0]) for a line i
\* that matches a block start pattern
ExtractMultiLine(i) ==
    /\ applied.method = "none"
    /\ \E lines \in {Split(source.text)} :
         \E patterns \in {getCommentPatterns(source.languageId)} :
             /\ i < Len(lines)
             /\ MatchesMultiLineStart(lines[i + 1], patterns.multiLineStart)
             /\ applied' =
                    [NotApplied EXCEPT
                        !.method  = "extractMultiLineComment",
                        !.line    = i,
                        !.comment = extractMultiLineComment(lines, i, patterns.multiLineEnd[1])]
    /\ UNCHANGED <<providerVars, source>>

ExtractNext ==
    \/ ExtractComments
    \/ \E i \in 0..(MaxTokens - 1) : ExtractMultiLine(i)

ExtractSpec == ExtractInit /\ [][ExtractNext]_vars

(***************************************************************************)
(* The passes of a block's parse on their own.  The document is made of a  *)
(* few lines out of a fixed stock (a fence, emphasis, a header, a list     *)
(* item, an image, a link), as the body of a block comment, as a markdown  *)
(* file or as a line comment.  A step applies one pass of the parse of a   *)
(* comment block to an empty decoration map, or the whole parse.           *)
(***************************************************************************)
PassLines ==
    {Fence,
     <<"*", "*", "x", "*", "*">>,
     <<"*", "x", "*">>,
     <<"~", "~", "x", "~", "~">>,
     <<"#", " ", "a">>,
     <<"-", " ", "a">>,
     <<"!", "[", "a", "]", "(", "u", ")">>,
     <<"[", "a", "]", "(", "u", ")">>}

MaxPassLines == 3

\* k '#' characters, a space and the content
HeaderLine(k, content) == [i \in 1..k |-> "#"] \o <<" ">> \o content

MaxHashes == 8

HeaderLines == {HeaderLine(k, content) : k \in 1..MaxHashes, content \in {<<"a">>, << >>}}

MaxHeaderLines == 2

\* '*italic with **nested-looking** text*' and the same shape in short
NestedTexts ==
    {<<"*", "i", "t", "a", "l", "i", "c", " ", "w", "i", "t", "h", " ", "*", "*",
       "n", "e", "s", "t", "e", "d", "-", "l", "o", "o", "k", "i", "n", "g",
       "*", "*", " ", "t", "e", "x", "t", "*">>,
     <<"*", "a", " ", "*", "*", "b", "*", "*", " ", "c", "*">>}

\* one construct inside another: bold inside inline code, bold as link text
NestedConstructs ==
    {<<BackTick, "*", "*", "x", "*", "*", BackTick>>,
     <<"[", "*", "*", "x", "*", "*", "]", "(", "u", ")">>}

\* lines around a list marker: the marker alone, with a blank after it, with
\* content, the bare asterisk of a JavaDoc-style comment, and plain text
MarkerLines ==
    {<<"-">>, <<"-", " ">>, <<"*">>, <<" ", "*">>, <<"-", " ", "a">>, <<"a">>}

MaxMarkerLines == 2

\* '<!--' and '-->'
HtmlOpen == <<"<", "!", "-", "-">>

HtmlClose == <<"-", "-", ">">>

\* markdown documents that hold each line inside an HTML comment: on the
\* lines between the markers, and on one line with them
HtmlCommentTexts ==
    {Join(<<HtmlOpen, line, HtmlClose>>) : line \in PassLines}
    \cup {HtmlOpen \o <<" ">> \o line \o <<" ">> \o HtmlClose : line \in PassLines}

\* block comments that no end marker closes: the start marker, a line with
\* an asterisk prefix and a line of markdown
UnterminatedTexts ==
    {Join(<<SlashStar, <<" ", "*", " ", "a">>, line>>) : line \in PassLines}

PassBodies ==
    {Join(lines) : lines \in UNION {[1..n -> PassLines] : n \in 1..MaxPassLines}}
    \cup {Join(lines) : lines \in UNION {[1..n -> HeaderLines] : n \in 1..MaxHeaderLines}}
    \cup NestedTexts
    \cup NestedConstructs
    \cup {Join(lines) : lines \in UNION {[1..n -> MarkerLines] : n \in 1..MaxMarkerLines}}

PassSources ==
    {Document(SlashStar \o <<NL>> \o body \o <<NL>> \o StarSlash, "typescript") :
        body \in PassBodies}
    \cup {Document(body, "markdown") : body \in PassBodies \cup HtmlCommentTexts}
    \cup {Document(SlashSlash \o <<" ">> \o line, "typescript") :
              line \in PassLines \cup HeaderLines \cup NestedTexts \cup NestedConstructs}
    \cup {Document(<<"a", " ">> \o SlashSlash \o <<" ">> \o line, "typescript") :
              line \in PassLines \cup HeaderLines \cup NestedTexts \cup NestedConstructs}
    \cup {Document(line \o <<" ">> \o SlashSlash \o <<" ">> \o line, "typescript") :
              line \in PassLines}
    \cup {Document(text, "typescript") : text \in UnterminatedTexts}

\* the passes of the parse of the block that look for markdown in its text:
\* the method and, for parseAndReplace, the pattern it is called with
PassesOf(comment, languageId) ==
    {[method |-> "parseAndReplace", pattern |-> r.pattern] :
        r \in ReplacePasses(comment, languageId)}
    \cup {[method |-> "parseLinks", pattern |-> "link"]}
    \cup (IF IsSingleLine(comment, languageId) THEN {}
          ELSE {[method |-> "replaceCodeBlockDelimiters", pattern |-> "fence"],
                [method |-> "parseImages", pattern |-> "image"],
                [method |-> "parseTaskLists", pattern |-> "task"],
                [method |-> "parseLists", pattern |-> "list"],
                [method |-> "parseHeadersWithNestedFormatting", pattern |-> "header"]})

\* the exclusionRanges argument of the task and list passes
ListExclusionRanges(comment, languageId) ==
    IF IsMarkdownLanguage(languageId) THEN ExclusionRanges(comment, languageId)
    ELSE << >>

\* the call of the pass in the parse of the block, on an empty map
RunPass(pass, comment, document, languageId, theme) ==
    CASE pass.method = "parseAndReplace" ->
           LET r == CHOOSE r \in ReplacePasses(comment, languageId) :
                        r.pattern = pass.pattern
           IN  parseAndReplace(EmptyDecorations, comment.text, r.pattern,
                               r.decorationType, comment, document, theme, -1,
                               ExclusionRanges(comment, languageId),
                               r.applyGrayColor, r.applyLineStartIndent)
      [] pass.method = "parseLinks" ->
           parseLinks(EmptyDecorations, comment.text, comment, document, -1,
                      ExclusionRanges(comment, languageId))
      [] pass.method = "parseImages" ->
           parseImages(EmptyDecorations, comment.text, comment, document, -1,
                       ExclusionRanges(comment, languageId))
      [] pass.method = "parseTaskLists" ->
           parseTaskLists(EmptyDecorations, comment.text, comment, document,
                          languageId, -1, ListExclusionRanges(comment, languageId))
      [] pass.method = "parseLists" ->
           parseLists(EmptyDecorations, comment.text, comment, document,
                      languageId, -1, ListExclusionRanges(comment, languageId))
      [] pass.method = "parseHeadersWithNestedFormatting" ->
           parseHeadersWithNestedFormatting(EmptyDecorations, comment.text, comment,
                                            document, -1)
      [] pass.method = "replaceCodeBlockDelimiters" ->
           replaceCodeBlockDelimiters(EmptyDecorations, comment.text, comment,
                                      document, theme, -1)

\* the whole parse of the block, on an empty map
RunParse(comment, document, languageId, theme) ==
    IF IsMarkdownLanguage(languageId)
    THEN parseMarkdownFile(EmptyDecorations, comment.text, comment, document,
                           languageId, theme, -1)
    ELSE parseMarkdownInComment(EmptyDecorations, comment, document, languageId,
                                theme, -1)

\* what each pass and the whole parse give for each block of each document
PassTable ==
    [s \in PassSources |->
        [k \in DOMAIN s.commentBlocks |->
            [passes |-> [pass \in PassesOf(s.commentBlocks[k], s.languageId) |->
                            RunPass(pass, s.commentBlocks[k], s.text, s.languageId,
                                    "Dark")],
             parse  |-> RunParse(s.commentBlocks[k], s.text, s.languageId, "Dark")]]]

PassInit ==
    /\ ProviderInit
    /\ editorDocument = [e \in Editors |-> "a.ts"]
    /\ source \in PassSources
    /\ applied = NotApplied

\* one pass of the parse of block k
ApplyPass(k, parser) ==
    /\ applied.method = "none"
    /\ \E pass \in PassesOf(source.commentBlocks[k], source.languageId) :
           applied' = [NotApplied EXCEPT
                          !.method      = pass.method,
                          !.pattern     = pass.pattern,
                          !.comment     = source.commentBlocks[k],
                          !.decorations = parser[source][k].passes[pass]]
    /\ UNCHANGED <<providerVars, source>>

\* parseMarkdownInComment(comment, ...), or parseMarkdownFile for a markdown file
ParseBlock(k, parser) ==
    /\ applied.method = "none"
    /\ applied' = [NotApplied EXCEPT
                      !.method      = IF IsMarkdownLanguage(source.languageId)
                                      THEN "parseMarkdownFile"
                                      ELSE "parseMarkdownInComment",
                      !.comment     = source.commentBlocks[k],
                      !.decorations = parser[source][k].parse]
    /\ UNCHANGED <<providerVars, source>>

PassNext ==
    \E parser \in {PassTable} :
        \/ \E k \in DOMAIN source.commentBlocks : ApplyPass(k, parser)
        \/ \E k \in DOMAIN source.commentBlocks : ParseBlock(k, parser)

PassSpec == PassInit /\ [][PassNext]_vars

(***************************************************************************)
(* The properties.  State is the reached state as the handlers see it;     *)
(* applying a handler to it gives the state the handler would leave.       *)
(***************************************************************************)
State == Reached(ParseTable)

\* allDecorations less the decorations that start on the line
WithoutLine(allDecorations, line) ==
    LET Keep(decoration) == decoration.sl # line
    IN  [type \in DOMAIN allDecorations |-> SelectSeq(allDecorations[type], Keep)]

\* the range of the decoration touches a line of the block
Touches(decoration, block) ==
    /\ decoration.sl <= block.endLine
    /\ decoration.el >= block.startLine

\* the decorations of all categories in the lists
AllOf(lists) ==
    UNION {{lists[type][i] : i \in 1..Len(lists[type])} : type \in DOMAIN lists}

\* C1: in a non-markdown document, once updateDecorations has rendered an
\* editor whose cursor is on a line of a comment block, no decoration
\* applied to the editor, of any category, touches a line of that block.
C1_WholeBlockRaw ==
    \A e \in hRendered :
        LET document      == editorDocument[e]
            commentBlocks == cachedCommentBlocks[document]
        IN  ~IsMarkdownLanguage(languageIdOf(document)) =>
                \A k \in HoldingBlocks(commentBlocks, selection[e]) :
                    \A decoration \in AllOf(editorDecorations[e]) :
                        ~Touches(decoration, commentBlocks[k])

\* one step: the text is not edited, the cursor of a non-markdown editor
\* goes from a line of a block to a line of no block and updateDecorations
\* renders the editor; then the editor shows the cached set less the
\* decorations that start on the new cursor line, among them every cached
\* decoration of the lines of the block it left
C2_Step ==
    \A e \in Editors :
        LET document == editorDocument[e]
            left     == HoldingBlocks(cachedCommentBlocks[document], selection[e])
        IN  (/\ getText' = getText
             /\ selection'[e] # selection[e]
             /\ ~IsMarkdownLanguage(languageIdOf(document))
             /\ document \in DOMAIN cachedCommentBlocks
             /\ document \in DOMAIN cachedDecorations
             /\ left # {}
             /\ e \in hRendered'
             /\ HoldingBlocks(cachedCommentBlocks'[document], selection'[e]) = {})
            => /\ editorDecorations'[e] =
                      WithoutLine(cachedDecorations'[document], selection'[e])
               /\ \A type \in DOMAIN cachedDecorations[document] :
                      \A i \in 1..Len(cachedDecorations[document][type]) :
                          LET decoration == cachedDecorations[document][type][i]
                          IN  (/\ decoration.sl # selection'[e]
                               /\ \E k \in left :
                                      Touches(decoration,
                                              cachedCommentBlocks[document][k]))
                              => \E j \in 1..Len(editorDecorations'[e][type]) :
                                     editorDecorations'[e][type][j] = decoration

C3_OnlyCursorLine ==
    \A e \in hRendered :
        LET document == editorDocument[e]
        IN  (\/ IsMarkdownLanguage(languageIdOf(document))
             \/ HoldingBlocks(cachedCommentBlocks[document], selection[e]) = {})
            => editorDecorations[e] =
                   WithoutLine(cachedDecorations[document], selection[e])

\* a markdown editor was rendered with its cursor inside the whole-file
\* block: a decoration of the cursor line was removed, one of another line
\* is shown
C3_Witness ==
    \E e \in hRendered :
        LET document == editorDocument[e]
        IN  /\ IsMarkdownLanguage(languageIdOf(document))
            /\ HoldingBlocks(cachedCommentBlocks[document], selection[e]) # {}
            /\ \E decoration \in AllOf(cachedDecorations[document]) :
                   decoration.sl = selection[e]
            /\ \E decoration \in AllOf(editorDecorations[e]) :
                   decoration.sl # selection[e]

\* C4: whenever cachedDecorations or cachedCommentBlocks holds an entry for
\* a document, the entry is what parsing the document's current text gives.
C4_CacheCoherence ==
    \A document \in Documents :
        /\ document \in DOMAIN cachedDecorations =>
               \E theme \in Themes :
                   cachedDecorations[document] =
                       Parse(ParseTable, getText[document], languageIdOf(document),
                             theme).allDecorations
        /\ document \in DOMAIN cachedCommentBlocks =>
               cachedCommentBlocks[document] =
                   Parse(ParseTable, getText[document], languageIdOf(document),
                         colorTheme).commentBlocks

\* no decoration is shown in a visible editor
NothingShown(st) ==
    \A e \in st.visibleTextEditors : st.editorDecorations[e] = EmptyDecorations

\* C5: while the provider is disabled every visible editor has an empty
\* list for every category; updateDecorations, forceUpdate and
\* reinitializeForTheme then apply nothing; and toggle, enabling the
\* provider again, renders every visible editor.
C5_DisabledMeansBare ==
    ~isEnabled =>
        /\ NothingShown(State)
        /\ NothingShown(reinitializeForTheme(State))
        /\ \A document \in Documents :
               /\ NothingShown(updateDecorations(State, document))
               /\ NothingShown(forceUpdate(State, document))
        /\ visibleTextEditors \subseteq toggle(State).hRendered

\* C6: for each document on its own, the first updateDecorations request
\* and every request made after that document's cursor went to another line
\* renders it: no such request is cut short.
C6_PerDocument == hMissed = {}

Frame(st, movesCursor) ==
    /\ st.getText = getText
    /\ st.editorDocument = editorDocument
    /\ st.visibleTextEditors = visibleTextEditors
    /\ st.activeTextEditor = activeTextEditor
    /\ st.colorTheme = colorTheme
    /\ movesCursor \/ st.selection = selection

\* C8: updateDecorations, forceUpdate, toggle, reinitializeForTheme and
\* exitCommentBlockTextMode leave the text of every document as it was, the
\* line count and the characters of every line; of the editors only the
\* decoration lists change and, by exitCommentBlockTextMode, the cursor of
\* the editor it is given.  (The enabled flag, which toggle flips, belongs
\* to the provider.)
C8_TextUntouched ==
    /\ \A document \in Documents :
           \A st \in {updateDecorations(State, document),
                      forceUpdate(State, document)} : Frame(st, FALSE)
    /\ \A st \in {toggle(State), reinitializeForTheme(State)} : Frame(st, FALSE)
    /\ \A e \in visibleTextEditors :
           \A st \in {exitCommentBlockTextMode(State, e)} :
               /\ Frame(st, TRUE)
               /\ \A other \in Editors \ {e} : st.selection[other] = selection[other]

\* an editor shows decorations, and exitCommentBlockTextMode would move its
\* cursor and render it
C8_Witness ==
    \E e \in visibleTextEditors :
        \E st \in {exitCommentBlockTextMode(State, e)} :
            /\ AllOf(editorDecorations[e]) # {}
            /\ st.selection[e] # selection[e]
            /\ e \in st.hRendered
            /\ st.editorDecorations[e] # editorDecorations[e]

(***************************************************************************)
(* Where the characters of a block's cleaned text come from.  Extraction   *)
(* keeps a suffix of every line of the block (of the part before the end   *)
(* marker, on the closing line), joins the kept parts with newlines and    *)
(* trims the result.                                                       *)
(***************************************************************************)
\* the number of characters that extraction removed from the front of line
\* number i (from 0) of a block comment
StrippedPrefix(comment, languageId, i) ==
    LET line      == comment.originalLines[i + 1]
        endMarker == getCommentPatterns(languageId).multiLineEnd[1]
        kept      == IF /\ comment.endLine > comment.startLine
                        /\ i = comment.endLine - comment.startLine
                     THEN Substring(line, 0, IndexOf(line, endMarker, 0))
                     ELSE line
    IN  Len(kept) - Len(comment.cleanedLines[i + 1])

\* the document position of the character at offset o of the cleaned text
SourcePosition(comment, languageId, o) ==
    IF IsMarkdownLanguage(languageId)
    THEN OffsetToPosition(comment.text, o, 0)
    ELSE IF comment.cleanedLines = << >>
    THEN [line |-> comment.startLine, character |-> comment.startChar + o]
    ELSE LET cleaned == comment.cleanedLines
             j == o + LeadingCount(Join(cleaned), WhiteSpace)
             i == CHOOSE n \in 0..(Len(cleaned) - 1) :
                      /\ LineStartOffset(cleaned, n) <= j
                      /\ j <= LineStartOffset(cleaned, n) + Len(cleaned[n + 1])
         IN  [line      |-> comment.startLine + i,
              character |-> StrippedPrefix(comment, languageId, i)
                            + j - LineStartOffset(cleaned, i)]

\* the document position just after the character at offset b - 1
SourceEnd(comment, languageId, a, b) ==
    IF a = b THEN SourcePosition(comment, languageId, a)
    ELSE [SourcePosition(comment, languageId, b - 1) EXCEPT !.character = @ + 1]

\* the characters of the document between two positions
SpanText(text, sl, sc, el, ec) ==
    Substring(text, LineStartOffset(Split(text), sl) + sc,
              LineStartOffset(Split(text), el) + ec)

\* C9: the position that getDocumentPosition returns for a match range
\* [a, b) of a block's cleaned text is null or the document span that the
\* range came from: the characters of the span are those of the range, and
\* the span starts and ends where extraction took those characters from
C9_MapsToSource ==
    (applied.method = "getDocumentPosition" /\ applied.position.found) =>
        \A p \in {applied.position} :
            /\ SpanText(source.text, p.sl, p.sc, p.el, p.ec)
                   = Substring(applied.comment.text, applied.matchStart,
                               applied.matchEnd)
            /\ [line |-> p.sl, character |-> p.sc]
                   = SourcePosition(applied.comment, source.languageId,
                                    applied.matchStart)
            /\ [line |-> p.el, character |-> p.ec]
                   = SourceEnd(applied.comment, source.languageId,
                               applied.matchStart, applied.matchEnd)

Found(position) == position.found

Both(pair) == pair.markers.found /\ pair.content.found

\* the ranges of a list of decorations
RangesOf(list) ==
    [k \in DOMAIN list |-> [sl |-> list[k].sl, sc |-> list[k].sc,
                            el |-> list[k].el, ec |-> list[k].ec]]

RangeOf(position) ==
    [sl |-> position.sl, sc |-> position.sc, el |-> position.el, ec |-> position.ec]

\* C10: a pass emits nothing for a match that getDocumentPosition returns
\* null for, and it goes on to the matches that follow: the hidden ranges
\* and the rendered decorations of a pass are those of the matches whose
\* positions were all found, one each, in the order of the matches
C10_NullMatchDropped ==
    /\ applied.method = "parseAndReplace" =>
           \A positions \in
                 {[k \in DOMAIN ExecAll(applied.comment.text, applied.pattern) |->
                      LET m == ExecAll(applied.comment.text, applied.pattern)[k]
                      IN  getDocumentPosition(m.start, m.end, applied.comment,
                                              source.text, applied.comment.text)]} :
               \A kept \in {SelectSeq(positions, Found)} :
                   /\ RangesOf(applied.decorations["replace"])
                          = [k \in DOMAIN kept |-> RangeOf(kept[k])]
                   /\ \A type \in DOMAIN applied.decorations \ {"replace"} :
                          Len(applied.decorations[type])
                              = IF (type = "italic" /\ applied.pattern = "italicBlock")
                                   \/ type = applied.pattern
                                THEN Len(kept) ELSE 0
    /\ applied.method = "parseHeaderLevel" =>
           \A pairs \in
                 {[k \in DOMAIN HeaderMatches(applied.comment.text, applied.level) |->
                      LET m == HeaderMatches(applied.comment.text, applied.level)[k]
                      IN  [markers |-> getDocumentPosition(
                                           m.start, m.cs, applied.comment,
                                           source.text, applied.comment.text),
                           content |-> getDocumentPosition(
                                           m.cs, m.end, applied.comment,
                                           source.text, applied.comment.text)]]} :
               \A kept \in {SelectSeq(pairs, Both)} :
                   /\ RangesOf(applied.decorations["replace"])
                          = [k \in DOMAIN kept |-> RangeOf(kept[k].markers)]
                   /\ RangesOf(applied.decorations[HeaderType(applied.level)])
                          = [k \in DOMAIN kept |-> RangeOf(kept[k].content)]

\* the lines after line i of the text hold no end marker of a block comment
Unterminated(text, i) ==
    \A j \in (i + 1)..(LineCount(text) - 1) : IndexOf(LineAt(text, j), StarSlash, 0) = -1

\* C11: a block comment whose start marker is followed by no end marker up
\* to the end of the file is emitted as one block that starts on the line
\* of the start marker and ends on the last line of the document.
C11_ClosedAtEndOfFile ==
    (applied.method = "extractMultiLineComment" /\ Unterminated(source.text, applied.line)) =>
        /\ applied.comment.startLine = applied.line
        /\ applied.comment.endLine = LineCount(source.text) - 1

\* C12: the blocks that extractComments returns are in increasing order of
\* startLine and their line ranges [startLine, endLine] are pairwise
\* disjoint, also on a line that holds both a single-line marker and the
\* start marker of a block comment.
C12_OrderedAndDisjoint ==
    applied.method = "extractComments" =>
        \A j, k \in DOMAIN source.commentBlocks :
            j < k => /\ source.commentBlocks[j].startLine < source.commentBlocks[k].startLine
                     /\ source.commentBlocks[j].endLine < source.commentBlocks[k].startLine

\* C13: every extracted block has startLine <= endLine, and its cleaned
\* text has endLine - startLine + 1 lines, so that line i of the cleaned
\* text is document line startLine + i.
C13_LineCorrespondence ==
    applied.method = "extractComments" =>
        \A k \in DOMAIN source.commentBlocks :
            \A comment \in {source.commentBlocks[k]} :
                /\ comment.startLine <= comment.endLine
                /\ LineCount(comment.text) = comment.endLine - comment.startLine + 1

\* the part of line number j (1-based) of the extracted block that the
\* cleaning is given: the whole of a middle line, and of the closing line
\* what comes before the end marker
Kept(comment, j) ==
    LET line == comment.originalLines[j]
    IN  IF comment.endLine > comment.startLine /\ j = Len(comment.originalLines)
        THEN Substring(line, 0, IndexOf(line, StarSlash, 0))
        ELSE line

\* the first n characters of the line are a decorative prefix: whitespace,
\* then one asterisk, then one whitespace character
IsDecorativePrefix(line, n) ==
    /\ n >= 2
    /\ n <= Len(line)
    /\ line[n] \in WhiteSpace
    /\ line[n - 1] = "*"
    /\ \A p \in 1..(n - 2) : line[p] \in WhiteSpace

\* the first characters of the line that are not blank are two asterisks
StartsDoubled(line) ==
    StartsWithAt(line, <<"*", "*">>, LeadingCount(line, WhiteSpace))

\* C14: the cleaning of a middle or closing line of a block comment removes
\* exactly one decorative prefix (optional whitespace, one asterisk, one
\* whitespace character) from a line that starts with one, and nothing
\* else; a line whose first non-blank characters are two asterisks is left
\* as it is.
C14_OnePrefixRemoved ==
    applied.method = "extractMultiLineComment" =>
        \A j \in 2..Len(applied.comment.cleanedLines) :
            \A kept \in {Kept(applied.comment, j)} :
                \A cleaned \in {applied.comment.cleanedLines[j]} :
                    \A removed \in {Len(kept) - Len(cleaned)} :
                        /\ removed >= 0
                        /\ cleaned = Substring(kept, removed, Len(kept))
                        /\ removed > 0 => IsDecorativePrefix(kept, removed)
                        /\ removed = 0 => \A n \in 1..Len(kept) : ~IsDecorativePrefix(kept, n)
                        /\ StartsDoubled(kept) => cleaned = kept

\* a line ' * **' of a block comment was cleaned to '**'
C14_Witness ==
    /\ applied.method = "extractMultiLineComment"
    /\ \E j \in 2..Len(applied.comment.cleanedLines) :
           /\ Kept(applied.comment, j) = <<" ", "*", " ", "*", "*">>
           /\ applied.comment.cleanedLines[j] = <<"*", "*">>

\* the matches that the pass loops over in the text
MatchesOf(pass, text) ==
    CASE pass.method = "parseLists" -> ExecAll(text, "bullet") \o ExecAll(text, "numbered")
      [] pass.method = "parseHeadersWithNestedFormatting" ->
           HeaderMatches(text, 7) \o HeaderMatches(text, 6) \o HeaderMatches(text, 5)
           \o HeaderMatches(text, 4) \o HeaderMatches(text, 3) \o HeaderMatches(text, 2)
           \o HeaderMatches(text, 1)
      [] OTHER -> ExecAll(text, pass.pattern)

\* the passes that run after the fences of the text are detected
AfterFenceMethods ==
    {"parseAndReplace", "parseLinks", "parseImages", "parseTaskLists", "parseLists",
     "parseHeadersWithNestedFormatting"}

\* the range [start, end) of the match and the range have an offset in common
Intersects(m, range) == m.start < range.end /\ m.end > range.start

\* C15: in the parse of a multi-line comment and of a markdown file, a pass
\* that runs after fence detection (bold, italic, inline code,
\* strikethrough, links, images, task items, list items, headers) emits no
\* decoration for a match whose range in the cleaned text intersects the
\* content range of a fenced code block: it hides at most as many ranges as
\* it has matches that intersect no fenced content.
C15_NothingInsideFences ==
    (applied.method \in AfterFenceMethods
     /\ ~IsSingleLine(applied.comment, source.languageId)) =>
        \A ranges \in {getCodeBlockRanges(applied.comment.text)} :
            \A matches \in {MatchesOf(applied, applied.comment.text)} :
                Len(applied.decorations["replace"])
                    <= Cardinality({k \in DOMAIN matches :
                                       \A r \in DOMAIN ranges :
                                           ~Intersects(matches[k], ranges[r])})

\* /^FENCE(\w*)$/ : the line is a fence delimiter
IsFenceDelimiter(line) ==
    StartsWithAt(line, Fence, 0) /\ \A k \in 4..Len(line) : line[k] \in WordChars

\* the index (0-based) of the line of the text that holds offset o
LineOfOffset(text, o) == Cardinality({k \in 1..o : text[k] = NL})

\* lines a < b of the text are the delimiters of a closed fenced block
ClosedFence(text, a, b) ==
    \A lines \in {Split(text)} :
        /\ a < b
        /\ b < Len(lines)
        /\ StartsWithAt(lines[a + 1], Fence, 0)
        /\ StartsWithAt(lines[b + 1], Fence, 0)
        /\ \A j \in (a + 1)..(b - 1) : ~StartsWithAt(lines[j + 1], Fence, 0)
        /\ Cardinality({j \in 0..(a - 1) : StartsWithAt(lines[j + 1], Fence, 0)}) % 2 = 0

\* the match lies within the content lines of a closed fenced block
InsideFence(text, m) ==
    \E a, b \in 0..(LineCount(text) - 1) :
        /\ ClosedFence(text, a, b)
        /\ LineOfOffset(text, m.start) > a
        /\ LineOfOffset(text, m.end - 1) < b

\* the text of the document that the decoration covers
Covered(document, d) == SpanText(document, d.sl, d.sc, d.el, d.ec)

C17_NestedItalicWhole ==
    (applied.method = "parseAndReplace"
     /\ applied.pattern \in {"italic", "italicBlock"}
     /\ applied.comment.text \in NestedTexts) =>
        \A text \in {applied.comment.text} :
            /\ ExecAll(text, applied.pattern)
                   = <<[start |-> 0, end |-> Len(text), cs |-> 1, ce |-> Len(text) - 1]>>
            /\ Len(applied.decorations["italic"]) = 1
            /\ applied.decorations["italic"][1].content = Substring(text, 1, Len(text) - 1)

\* the categories that only the parse of a multi-line comment or of a
\* markdown file fills: headers, the gray overlay, code fences, indents
BlockOnlyCategories ==
    {"header1", "header2", "header3", "header4", "header5", "header6", "header7",
     "commentGray", "codeBlockLine", "markdownLine", "indent", "syntax-keyword",
     "syntax-string", "syntax-number", "syntax-function", "syntax-comment",
     "syntax-variable", "syntax-property", "syntax-operator"}

\* the content that each decoration of the list renders
ContentsOf(list) == [k \in DOMAIN list |-> list[k].content]

\* the content (group 1) of each match of the pattern in the text
MatchedContents(text, pattern) ==
    LET matches == ExecAll(text, pattern)
    IN  [k \in DOMAIN matches |-> Substring(text, matches[k].cs, matches[k].ce)]

\* C18: the parse of a block with startLine = endLine (a single-line or
\* trailing comment) emits no header, list, task, code-fence, gray-overlay
\* or delimiter decoration whatever its text, and emits the bold, italic,
\* inline code, strikethrough and link matches: each category holds one
\* decoration per match of its pattern and nothing else.
C18_SingleLineInlineOnly ==
    (applied.method = "parseMarkdownInComment"
     /\ applied.comment.startLine = applied.comment.endLine) =>
        \A text \in {applied.comment.text} :
            \A decs \in {applied.decorations} :
                /\ \A type \in BlockOnlyCategories : decs[type] = << >>
                /\ ContentsOf(decs["bold"]) = MatchedContents(text, "bold")
                /\ ContentsOf(decs["italic"]) = MatchedContents(text, "italic")
                /\ ContentsOf(decs["strikethrough"]) = MatchedContents(text, "strikethrough")
                /\ ContentsOf(decs["code"])
                       = MatchedContents(text, "link") \o MatchedContents(text, "code")
                /\ Len(decs["replace"])
                       = Len(decs["bold"]) + Len(decs["italic"])
                         + Len(decs["strikethrough"]) + Len(decs["code"])

\* the line comment '// # a' has been parsed and has no decoration at all
C18_Witness ==
    /\ applied.method = "parseMarkdownInComment"
    /\ source.text = SlashSlash \o <<" ", "#", " ", "a">>
    /\ applied.comment.text = <<"#", " ", "a">>
    /\ applied.decorations = EmptyDecorations

\* the number of '#' characters that the line begins with
Hashes(line) == LeadingCount(line, {"#"})

\* the line begins with exactly k '#' characters and a space
IsHeaderLine(line, k) == Hashes(line) = k /\ Len(line) > k /\ line[k + 1] = " "

\* C19: every line of the cleaned text that begins with exactly k '#'
\* characters (1 <= k <= 7) and a space is put in category header-k and in
\* no other header category, whatever the order of the header lines; a
\* line with 8 or more '#' is put in none.  Category header-k holds one
\* decoration per such line, each on a line of its own and right after k
\* '#' characters and a space of the document.
C19_HeaderLevelExact ==
    (applied.method = "parseHeadersWithNestedFormatting") =>
        \A lines \in {Split(applied.comment.text)} :
            \A k \in HeaderLevels :
                \A styled \in {applied.decorations[HeaderType(k)]} :
                    /\ Len(styled) = Cardinality({j \in DOMAIN lines : IsHeaderLine(lines[j], k)})
                    /\ \A i \in DOMAIN styled :
                           \A line \in {LineAt(source.text, styled[i].sl)} :
                               /\ styled[i].sc >= k + 1
                               /\ Substring(line, styled[i].sc - k - 1, styled[i].sc)
                                      = HeaderLine(k, << >>)
                               /\ (styled[i].sc - k - 1 = 0
                                   \/ line[styled[i].sc - k - 1] # "#")
                               /\ \A j \in DOMAIN styled :
                                      j # i => styled[j].sl # styled[i].sl

\* C20: for an image '![alt](url)' only the image pass has a match: the
\* link pass emits nothing for the '[alt](url)' part of an image, and the
\* whole parse of a text that is one image emits one hiding decoration and
\* one rendered decoration.
C20_ImageOnlyOnce ==
    /\ applied.method = "parseLinks" =>
           \A text \in {applied.comment.text} :
               \A matches \in {ExecAll(text, "link")} :
                   Len(applied.decorations["replace"])
                       <= Cardinality({k \in DOMAIN matches :
                                          ~(matches[k].start > 0
                                            /\ text[matches[k].start] = "!")})
    /\ (applied.method \in {"parseMarkdownInComment", "parseMarkdownFile"}
        /\ ~IsSingleLine(applied.comment, source.languageId)
        /\ applied.comment.text = <<"!", "[", "a", "]", "(", "u", ")">>) =>
           /\ Len(applied.decorations["replace"]) = 1
           /\ Len(applied.decorations["italic"]) + Len(applied.decorations["code"]) = 1

\* position (l1, c1) of the document comes before position (l2, c2)
Before(l1, c1, l2, c2) == l1 < l2 \/ (l1 = l2 /\ c1 < c2)

\* the two ranges have a character of the document in common
Overlap(a, b) ==
    /\ Before(a.sl, a.sc, b.el, b.ec)
    /\ Before(b.sl, b.sc, a.el, a.ec)
    /\ Before(a.sl, a.sc, a.el, a.ec)
    /\ Before(b.sl, b.sc, b.el, b.ec)

\* the whole parse of a block has been applied
Parsed == applied.method \in {"parseMarkdownInComment", "parseMarkdownFile"}

\* C21: in the decorations computed for a block no two 'replace' ranges
\* overlap: every character of the document is hidden by at most one
\* hiding decoration across all the passes, also for nested constructs
\* such as bold inside inline code or inside the text of a link.
C21_HidesDisjoint ==
    Parsed =>
        \A hidden \in {applied.decorations["replace"]} :
            \A i, j \in DOMAIN hidden : i < j => ~Overlap(hidden[i], hidden[j])

\* the decorations of the list that render a bullet
Bullets(list) ==
    {k \in DOMAIN list : list[k].content # << >> /\ Head(list[k].content) = "Bullet"}

\* C22: a line that consists of a bullet marker ('-' or '*', optionally
\* indented) followed by nothing or by whitespace only, up to the end of
\* that line, never gets a bullet decoration, whatever the lines after it
\* hold: every bullet is rendered at a marker that has content after it on
\* its own line of the document.
C22_BareMarkerNoBullet ==
    applied.method = "parseLists" =>
        \A rendered \in {applied.decorations["bold"]} :
            \A k \in Bullets(rendered) :
                \A line \in {LineAt(source.text, rendered[k].sl)} :
                    /\ rendered[k].sc < Len(line)
                    /\ line[rendered[k].sc + 1] \in {"-", "*"}
                    /\ Trim(Substring(line, rendered[k].sc + 1, Len(line))) # << >>

\* C23: a change of the colour theme regenerates the styles without
\* running comment extraction or pattern matching again: the step that
\* changes the theme parses no document, the comment blocks and the
\* positions computed before are used again.
C23_ThemeReusesParse == [][colorTheme' # colorTheme => hParsed' = {}]_vars

\* what the command md-in-comments.escapeCommentBlock leaves, run in the
\* reached state with an active editor
Escaped ==
    IF /\ isEnabled
       /\ isInCommentBlock(State, editorDocument[activeTextEditor],
                           selection[activeTextEditor])
    THEN exitCommentBlockTextMode(State, activeTextEditor)
    ELSE State

\* the decorations of the list whose range starts on a line of the block
OfBlock(list, block) ==
    {list[k] : k \in {i \in DOMAIN list : /\ list[i].sl >= block.startLine
                                          /\ list[i].sl <= block.endLine}}

\* C24: the escape command, run with the cursor inside a cached comment
\* block of a code file, leaves the cursor on the line after the block
\* (endLine + 1) and the decorations of the block applied to the editor
\* again; run with the cursor in no block, it changes neither the cursor
\* nor the applied decorations.
C24_EscapeLeavesBlock ==
    (activeTextEditor # NoEditor /\ isEnabled) =>
        \A e \in {activeTextEditor} :
            \A document \in {editorDocument[e]} :
                \A st \in {Escaped} :
                    IF isInCommentBlock(State, document, selection[e])
                    THEN \A blocks \in {cachedCommentBlocks[document]} :
                           \A block \in {blocks[Min(HoldingBlocks(blocks, selection[e]))]} :
                               /\ st.selection[e] = block.endLine + 1
                               /\ document \in DOMAIN st.cachedDecorations
                               /\ \A type \in Categories :
                                      OfBlock(st.cachedDecorations[document][type], block)
                                          \subseteq OfBlock(st.editorDecorations[e][type], block)
                    ELSE /\ st.selection = selection
                         /\ st.editorDecorations = editorDecorations

\* C25: the pending debounced request of a document goes away only when
\* its timer fires (updateDecorations is called for the document, no timer
\* is left) or when a newer request for the same document replaces it; a
\* request for another document never cancels it.
C25_SupersededPerDocument ==
    [][(updateTimeout # NoTimeout /\ updateTimeout' # updateTimeout)
           => updateTimeout' = NoTimeout]_vars

\* the document lines of the block that are fence delimiter lines
FenceLinesOf(document, comment) ==
    {l \in comment.startLine..comment.endLine : IsFenceLine(LineAt(document, l), FALSE)}

\* the document lines of the block between the delimiters of a closed
\* fenced block: an odd number of delimiter lines above, one more below
CodeContentLinesOf(document, comment) ==
    \* the set is bound once, for the two quantifiers below
    UNION {{l \in (comment.startLine..comment.endLine) \ fences :
               /\ Cardinality({f \in fences : f < l}) % 2 = 1
               /\ \E f \in fences : f > l}
           : fences \in {FenceLinesOf(document, comment)}}

\* the document lines that a decoration of the list covers
LinesCovered(list) == UNION {list[k].sl..list[k].el : k \in DOMAIN list}

\* C26: after the parse of a multi-line comment that contains a closed
\* fenced code block with at least one content line, the lines covered by the 'commentGray' overlay are
\* exactly the lines of the block that are neither fence delimiter lines
\* nor code content lines.
C26_GrayOutsideCode ==
    (/\ applied.method = "parseMarkdownInComment"
     /\ ~IsSingleLine(applied.comment, source.languageId)
     /\ CodeContentLinesOf(source.text, applied.comment) # {}) =>
        LinesCovered(applied.decorations["commentGray"])
            = (applied.comment.startLine..applied.comment.endLine)
                  \ (FenceLinesOf(source.text, applied.comment)
                     \cup CodeContentLinesOf(source.text, applied.comment))

\* the offset in the text of the position (line, character)
OffsetOf(text, line, character) == LineStartOffset(Split(text), line) + character

\* the decoration covers text that lies inside one of the ranges
LiesInside(text, d, ranges) ==
    \E r \in DOMAIN ranges :
        /\ OffsetOf(text, d.sl, d.sc) >= ranges[r].start
        /\ OffsetOf(text, d.el, d.ec) <= ranges[r].end
        /\ OffsetOf(text, d.el, d.ec) > OffsetOf(text, d.sl, d.sc)

\* C27: the parse of a markdown file emits no decoration of a markdown
\* construct (any category but the line background) over text that lies
\* inside an HTML comment.
C27_NothingInsideHtmlComments ==
    applied.method = "parseMarkdownFile" =>
        \A ranges \in {HtmlCommentRanges(source.text)} :
            \A type \in Categories \ {"markdownLine"} :
                \A k \in DOMAIN applied.decorations[type] :
                    ~LiesInside(source.text, applied.decorations[type][k], ranges)

\* line i of the text starts a block comment and holds the end marker
\* after the start marker
ClosedOnStartLine(text, i) ==
    \A line \in {LineAt(text, i)} :
        /\ MatchesMultiLineStart(line, getCommentPatterns("typescript").multiLineStart)
        /\ IndexOf(line, StarSlash, LeadingCount(line, WhiteSpace) + 2) # -1

\* C28: a block comment whose start and end markers are on the same line
\* is extracted as a block of that one line: endLine = startLine, and no
\* later line is taken into the block.
C28_OneLineBlock ==
    (applied.method = "extractMultiLineComment"
     /\ ClosedOnStartLine(source.text, applied.line)) =>
        /\ applied.comment.startLine = applied.line
        /\ applied.comment.endLine = applied.line
        /\ applied.comment.originalLines = <<LineAt(source.text, applied.line)>>

\* C29: every decoration that the parse of a single-line or trailing
\* comment emits lies on the line of the comment at a column >= the
\* comment's startChar, so the text before the comment marker is never
\* hidden or decorated.
C29_NothingBeforeMarker ==
    (applied.method = "parseMarkdownInComment"
     /\ IsSingleLine(applied.comment, source.languageId)) =>
        \A type \in Categories :
            \A k \in DOMAIN applied.decorations[type] :
                /\ applied.decorations[type][k].sl = applied.comment.startLine
                /\ applied.decorations[type][k].sc >= applied.comment.startChar

\* C30: every decoration that the parse of a block emits, in every
\* category, has the start line of its range within the lines of the
\* block, [startLine, endLine].
C30_StartLineInBlock ==
    Parsed =>
        \A type \in Categories :
            \A k \in DOMAIN applied.decorations[type] :
                /\ applied.decorations[type][k].sl >= applied.comment.startLine
                /\ applied.decorations[type][k].sl <= applied.comment.endLine

\* the parse of a block comment of several lines has grayed the block and
\* hidden text on a middle line
C30_Witness ==
    /\ applied.method = "parseMarkdownInComment"
    /\ applied.comment.endLine >= applied.comment.startLine + 2
    /\ applied.decorations["commentGray"] # << >>
    /\ \E k \in DOMAIN applied.decorations["replace"] :
           /\ applied.decorations["replace"][k].sl > applied.comment.startLine
           /\ applied.decorations["replace"][k].sl < applied.comment.endLine
====
